---- MODULE Spec2Model ----
(***************************************************************************)
(* Me-Nexus vault backend: the schema-driven object store                  *)
(* (src-tauri/src/database.rs) as a state machine.                          *)
(*                                                                         *)
(* The four SQLite tables are sets of rows.  Every Database method is a    *)
(* sequence of steps of the task that called it: the task waits for the    *)
(* tokio Mutex around the connection, runs the method's SQL statements one *)
(* by one (each statement is its own autocommitted transaction: the code   *)
(* opens none), builds its result and drops the guard on return.  A        *)
(* statement may fail with a storage error (rusqlite returns Err and the   *)
(* `?` operator leaves the method).                                        *)
(***************************************************************************)
EXTENDS Integers, Sequences, FiniteSets, TLC

\* ------------------------------------------------------------------ bounds
MaxCalls == 3        \* Database methods called in one behaviour
MaxClock == 1        \* readings of Utc::now() are 0..MaxClock
MaxEvents == 2       \* events the watcher sends in one behaviour
MaxSyncs == 1        \* calls of force_sync in one behaviour
MaxRequests == 2     \* calls of send_request in one behaviour
MaxOutput == 2       \* events the sidecar process raises in one behaviour

\* -------------------------------------------------------- Option<T> values
None == <<>>
Some(x) == <<x>>
IsSome(o) == Len(o) = 1
Unwrap(o) == o[1]

\* ------------------------------------------------------------ JSON (serde)
\* JSON text is a sequence of tokens: <<c>> for a punctuation mark or a
\* keyword, <<"str", s>> for a string literal, <<"num", n>> for a number.
LBrace == <<"{">>
RBrace == <<"}">>
LBracket == <<"[">>
RBracket == <<"]">>
Colon == <<":">>
Comma == <<",">>
KwNull == <<"null">>
KwTrue == <<"true">>
KwFalse == <<"false">>
StrTok(s) == <<"str", s>>
NumTok(n) == <<"num", n>>

\* serde_json::Value: <<"null">>, <<"bool", b>>, <<"num", n>>, <<"str", s>>,
\* <<"arr", elems>>, <<"obj", members>> with members a sequence of <<key, value>>.
JNull == <<"null">>
JBool(b) == <<"bool", b>>
JNum(n) == <<"num", n>>
JStr(s) == <<"str", s>>
JArr(elems) == <<"arr", elems>>
JObj(members) == <<"obj", members>>

ParseFail == [ok |-> FALSE, val |-> JNull, next |-> 0]
ParseOk(v, n) == [ok |-> TRUE, val |-> v, next |-> n]

RECURSIVE ParseValue(_, _)
RECURSIVE ParseElements(_, _, _)
RECURSIVE ParseMembers(_, _, _)

\* The elements of an array after "[" or after ",": value, then "," or "]".
ParseElements(toks, i, acc) ==
    LET r == ParseValue(toks, i) IN
    IF ~r.ok \/ r.next > Len(toks) THEN ParseFail
    ELSE IF toks[r.next] = RBracket THEN ParseOk(JArr(Append(acc, r.val)), r.next + 1)
    ELSE IF toks[r.next] = Comma THEN ParseElements(toks, r.next + 1, Append(acc, r.val))
    ELSE ParseFail

\* The members of an object after "{" or after ",": "key" : value, then "," or "}".
ParseMembers(toks, i, acc) ==
    IF i + 1 > Len(toks) \/ toks[i][1] # "str" \/ toks[i + 1] # Colon THEN ParseFail
    ELSE LET r == ParseValue(toks, i + 2) IN
         IF ~r.ok \/ r.next > Len(toks) THEN ParseFail
         ELSE LET m == Append(acc, <<toks[i][2], r.val>>) IN
              IF toks[r.next] = RBrace THEN ParseOk(JObj(m), r.next + 1)
              ELSE IF toks[r.next] = Comma THEN ParseMembers(toks, r.next + 1, m)
              ELSE ParseFail

ParseValue(toks, i) ==
    IF i > Len(toks) THEN ParseFail
    ELSE LET t == toks[i] IN
         CASE t[1] = "str" -> ParseOk(JStr(t[2]), i + 1)
           [] t[1] = "num" -> ParseOk(JNum(t[2]), i + 1)
           [] t = KwNull -> ParseOk(JNull, i + 1)
           [] t = KwTrue -> ParseOk(JBool(TRUE), i + 1)
           [] t = KwFalse -> ParseOk(JBool(FALSE), i + 1)
           [] t = LBracket ->
                IF i + 1 <= Len(toks) /\ toks[i + 1] = RBracket
                THEN ParseOk(JArr(<<>>), i + 2)
                ELSE ParseElements(toks, i + 1, <<>>)
           [] t = LBrace ->
                IF i + 1 <= Len(toks) /\ toks[i + 1] = RBrace
                THEN ParseOk(JObj(<<>>), i + 2)
                ELSE ParseMembers(toks, i + 1, <<>>)
           [] OTHER -> ParseFail

\* serde_json::from_str::<Value>: one value and nothing after it.
from_str(text) ==
    LET r == ParseValue(text, 1) IN
    IF r.ok /\ r.next = Len(text) + 1 THEN Some(r.val) ELSE None

\* -------------------------------------------------- models.rs: Todo as JSON
\* #[derive(Serialize)] writes the fields in declaration order; an Option is
\* null or its value.
SerOptStr(o) == IF IsSome(o) THEN <<StrTok(Unwrap(o))>> ELSE <<KwNull>>
SerOptNum(o) == IF IsSome(o) THEN <<NumTok(Unwrap(o))>> ELSE <<KwNull>>
SerBool(b) == IF b THEN <<KwTrue>> ELSE <<KwFalse>>

RECURSIVE SerStrings(_)
SerStrings(xs) ==
    IF xs = <<>> THEN <<>>
    ELSE IF Len(xs) = 1 THEN <<StrTok(xs[1])>>
    ELSE <<StrTok(xs[1]), Comma>> \o SerStrings(Tail(xs))

SerOptStrings(o) ==
    IF IsSome(o) THEN <<LBracket>> \o SerStrings(Unwrap(o)) \o <<RBracket>>
    ELSE <<KwNull>>

SerField(name, value) == <<StrTok(name), Colon>> \o value

\* serde_json::to_string(&Todo)
to_string(todo) ==
    <<LBrace>>
      \o SerField("id", SerOptNum(todo.id)) \o <<Comma>>
      \o SerField("text", <<StrTok(todo.text)>>) \o <<Comma>>
      \o SerField("completed", SerBool(todo.completed)) \o <<Comma>>
      \o SerField("created_at", <<StrTok(todo.created_at)>>) \o <<Comma>>
      \o SerField("updated_at", SerOptStr(todo.updated_at)) \o <<Comma>>
      \o SerField("due_date", SerOptStr(todo.due_date)) \o <<Comma>>
      \o SerField("priority", SerOptStr(todo.priority)) \o <<Comma>>
      \o SerField("tags", SerOptStrings(todo.tags))
      \o <<RBrace>>

\* #[derive(Deserialize)] for Todo reads the members by name: a missing or
\* null Option member is None, a missing required member, a member of the wrong
\* type or a member given twice is an error, an unknown member is skipped.
Members(v, key) == {i \in 1..Len(v[2]) : v[2][i][1] = key}
Member(v, key) == v[2][CHOOSE i \in Members(v, key) : TRUE][2]
Required(v, key, kind) ==
    Cardinality(Members(v, key)) = 1 /\ Member(v, key)[1] = kind
Optional(v, key, kind) ==
    \/ Members(v, key) = {}
    \/ /\ Cardinality(Members(v, key)) = 1
       /\ Member(v, key)[1] \in {kind, "null"}
OptionOf(v, key) ==
    IF Members(v, key) = {} \/ Member(v, key) = JNull THEN None
    ELSE Some(Member(v, key)[2])
StringsOf(arr) == [i \in 1..Len(arr[2]) |-> arr[2][i][2]]
OptionOfStrings(v, key) ==
    IF Members(v, key) = {} \/ Member(v, key) = JNull THEN None
    ELSE Some(StringsOf(Member(v, key)))

TodoWellTyped(v) ==
    /\ v[1] = "obj"
    /\ Optional(v, "id", "num")
    /\ Required(v, "text", "str")
    /\ Required(v, "completed", "bool")
    /\ Required(v, "created_at", "str")
    /\ Optional(v, "updated_at", "str")
    /\ Optional(v, "due_date", "str")
    /\ Optional(v, "priority", "str")
    /\ Optional(v, "tags", "arr")
    /\ (Members(v, "tags") # {} /\ Member(v, "tags")[1] = "arr"
          => \A i \in 1..Len(Member(v, "tags")[2]) : Member(v, "tags")[2][i][1] = "str")

\* serde_json::from_value::<Todo>: None stands for Err.
todo_from_value(v) ==
    IF ~TodoWellTyped(v) THEN None
    ELSE Some([id |-> OptionOf(v, "id"),
               text |-> Member(v, "text")[2],
               completed |-> Member(v, "completed")[2],
               created_at |-> Member(v, "created_at")[2],
               updated_at |-> OptionOf(v, "updated_at"),
               due_date |-> OptionOf(v, "due_date"),
               priority |-> OptionOf(v, "priority"),
               tags |-> OptionOfStrings(v, "tags")])

\* serde_json::from_str::<Todo>: None stands for Err.
todo_from_str(text) ==
    LET parsed == from_str(text) IN
    IF ~IsSome(parsed) THEN None ELSE todo_from_value(Unwrap(parsed))

\* ------------------------------------------------------------- input values
\* The contents a caller saves: Todo::new(text) and a fully filled record.
NewTodo ==
    [id |-> None, text |-> "buy milk", completed |-> FALSE,
     created_at |-> "2024-01-01T00:00:00Z", updated_at |-> None,
     due_date |-> None, priority |-> None, tags |-> None]
FullTodo ==
    [id |-> Some(1), text |-> "", completed |-> TRUE,
     created_at |-> "2024-01-01T00:00:00Z", updated_at |-> Some("2024-01-02T00:00:00Z"),
     due_date |-> None, priority |-> Some("high"), tags |-> Some(<<"a", "b">>)]

\* Permissions::default() and one record with flags set.
DefaultPermissions ==
    [share_with_ai |-> FALSE, share_with_cloud |-> FALSE, read_only |-> FALSE,
     expires_at |-> None]
SharedPermissions ==
    [share_with_ai |-> TRUE, share_with_cloud |-> FALSE, read_only |-> TRUE,
     expires_at |-> Some("2030-01-01T00:00:00Z")]

TodosPath == "Todo/todos.json"
NotesPath == "Notes/a.json"
FilePaths == {TodosPath, NotesPath}

\* Schema definitions: the one of "core.todo" (register_core_schemas; its
\* "properties" member is left out here), and the ones a caller registers, a
\* well-formed document and one that is cut off.
TodoSchemaJson ==
    <<LBrace, StrTok("type"), Colon, StrTok("object"), Comma,
      StrTok("required"), Colon,
      LBracket, StrTok("text"), Comma, StrTok("completed"), Comma, StrTok("created_at"),
      RBracket, RBrace>>
StrictSchemaJson ==
    <<LBrace, StrTok("type"), Colon, StrTok("object"), Comma,
      StrTok("required"), Colon, LBracket, StrTok("text"), RBracket, RBrace>>
CutOffJson == <<LBrace, StrTok("type"), Colon>>

\* ------------------------------------------------------------------- state
Tasks == {"command", "sync"}   \* the command layer's task and the sync engine's task
Unlocked == "unlocked"

VARIABLES
    schemas,             \* table schemas: rows [id, schema_name, definition_json, version, created_at]
    data_objects,        \* table data_objects: rows [id, schema_id, file_path, updated_at, created_at]
    object_content,      \* table object_content: rows [object_id, content_json]
    object_permissions,  \* table object_permissions: rows [object_id, share_with_ai, ...]
    sqlite_sequence,     \* AUTOINCREMENT: the largest rowid ever used, per table
    connection,          \* Database.connection, the tokio Mutex: Unlocked or the task holding the guard
    clock,               \* what Utc::now() returns
    pc,                  \* per task: where it is in the method it called
    call,                \* per task: the method it called and its arguments
    local,               \* per task: the method's local variables
    ret,                 \* per task: the method's result
    pre,                 \* history: the tables as they were when the guard was taken
    saved,               \* history: object id -> what save_object was given for it, with the
                         \* permissions update_object_permissions was given for it since
    calls,               \* history: how many methods have been called
    todos_file,          \* <vault>/Todo/todos.json: None when absent, else its text
    status,              \* SyncService.status, the SyncStatus behind the RwLock
    events,              \* the mpsc channel from the debouncer to the consumer task
    service,             \* start() and force_sync(): where the scan is, the records of the
                         \* file still to save, whether the watcher is registered; history:
                         \* the calls of force_sync, the file the last scan read, whether the
                         \* running scan read the same one, the objects when it was forced
    consumer,            \* the spawned consumer task: where it is, its event, its path index
    emitted,             \* history: how many events the watcher has sent
    senders,             \* the tasks the debouncer's callback has spawned, in the order
                         \* of its calls: the events each has still to send
    next_id,             \* SidecarManager.next_id behind its Mutex
    response_handlers,   \* SidecarManager.response_handlers: request id -> the oneshot
                         \* sender of the call that registered it, named by its caller
    requests,            \* the mpsc channel from send_request to the writer task
    writer,              \* the task writing to the sidecar's stdin: running or ended
    child,               \* the sidecar process: alive or not, the lines its stdin got,
                         \* how many events it has raised
    output,              \* the channel of CommandEvents from the sidecar process
    reader,              \* the task reading the events: where it is, the lines of the
                         \* Stdout event it is working on
    rpc,                 \* per caller of send_request: where it is, its request id, what
                         \* the receiver of its oneshot channel holds, what it returned
    issued               \* history: the request ids taken so far, in order

tables == <<schemas, data_objects, object_content, object_permissions, sqlite_sequence>>
store == <<schemas, data_objects, object_content, object_permissions, sqlite_sequence,
           connection, clock, pc, call, local, ret, pre, saved, calls>>
plugin == <<next_id, response_handlers, requests, writer, child, output, reader, rpc, issued>>
beside == <<senders, plugin>>
engine == <<todos_file, status, events, service, consumer, emitted, beside>>
vars == <<schemas, data_objects, object_content, object_permissions, sqlite_sequence,
          connection, clock, pc, call, local, ret, pre, saved, calls,
          todos_file, status, events, service, consumer, emitted, senders,
          next_id, response_handlers, requests, writer, child, output, reader, rpc, issued>>

Snapshot ==
    [schemas |-> schemas, data_objects |-> data_objects,
     object_content |-> object_content, object_permissions |-> object_permissions]
NoSnapshot ==
    [schemas |-> {}, data_objects |-> {}, object_content |-> {}, object_permissions |-> {}]

NoCall ==
    [op |-> "none", schema_name |-> "", definition_json |-> <<>>,
     content |-> None, file_path |-> None, permissions |-> None, object_id |-> 0,
     peer |-> None]
NoLocal == [schema_id |-> 0, object_id |-> 0, now |-> 0]
NoRet == [status |-> "none", code |-> "", value |-> None]

Ok(v) == [status |-> "Ok", code |-> "", value |-> Some(v)]
Err(variant, code) == [status |-> variant, code |-> code, value |-> None]
\* NexusError::Database(rusqlite::Error): a constraint violation, a storage
\* failure, or a column that could not be read.
StorageFailure == Err("Database", "storage")
ConstraintViolation == Err("Database", "constraint")

InCall(p) == pc[p] # "idle"
InBody(p) == pc[p] \notin {"idle", "lock"}

\* --------------------------------------------------------------------- SQL
ObjectIds == {o.id : o \in data_objects}
\* SELECT id FROM schemas without the WHERE clause.
SchemaIdsNamed_AnyName(name) == {s.id : s \in schemas}

SchemaIdsNamed(name) == {s.id : s \in {r \in schemas : r.schema_name = name}}
\* With foreign_keys off no data_objects row follows its schema row.
ObjectsOfSchemas_ForeignKeysOff(ids) == {}

ObjectsOfSchemas(ids) == {o \in data_objects : o.schema_id \in ids}
ObjectsAtPath(path) == {o \in data_objects : o.file_path = Some(path)}
RowsOf(table, ids) == {r \in table : r.object_id \in ids}

\* The same DELETE with foreign_keys off: the children stay.
DeleteObjects_NoCascade(ids) ==
    /\ data_objects' = {o \in data_objects : o.id \notin ids}
    /\ UNCHANGED <<object_content, object_permissions>>

\* DELETE FROM data_objects WHERE id IN ids, with both ON DELETE CASCADE children.
DeleteObjects(ids) ==
    /\ data_objects' = {o \in data_objects : o.id \notin ids}
    /\ object_content' = object_content \ RowsOf(object_content, ids)
    /\ object_permissions' = object_permissions \ RowsOf(object_permissions, ids)

\* ------------------------------------------------------------------- Init
\* Database::new on a fresh vault: the tables are created and "core.todo" is
\* registered.
DatabaseNew ==
    /\ schemas = {[id |-> 1, schema_name |-> "core.todo", definition_json |-> TodoSchemaJson,
                   version |-> "1.0.0", created_at |-> 0]}
    /\ data_objects = {}
    /\ object_content = {}
    /\ object_permissions = {}
    /\ sqlite_sequence = [schemas |-> 1, data_objects |-> 0]
    /\ connection = Unlocked
    /\ clock = 0
    /\ pc = [p \in Tasks |-> "idle"]
    /\ call = [p \in Tasks |-> NoCall]
    /\ local = [p \in Tasks |-> NoLocal]
    /\ ret = [p \in Tasks |-> NoRet]
    /\ pre = NoSnapshot
    /\ saved = <<>>
    /\ calls = 0

\* SyncService::new: the status is clear, nothing is watched, no task is spawned.
NoEvent == [kind |-> "none", paths |-> <<>>]
ServiceNew ==
    /\ status = [is_syncing |-> FALSE, last_sync |-> None, pending_changes |-> 0,
                 errors |-> <<>>]
    /\ events = <<>>
    /\ service = [pc |-> "new", todos |-> <<>>, error |-> NoRet, watcher |-> FALSE,
                  forced |-> 0, seen |-> None, unchanged |-> FALSE, before |-> {}]
    /\ consumer = [pc |-> "none", event |-> NoEvent, i |-> 0, error |-> NoRet]
    /\ emitted = 0
    /\ senders = <<>>

\* The callers of SidecarManager::send_request: the plugin commands of lib.rs.
Callers == {"ping_plugins", "get_plugin_info"}
NoResponse == None

\* SidecarManager::new: the channel and the handler map are empty, the next
\* id is 1, the sidecar process runs, the writer and the reader are spawned.
SidecarNew ==
    /\ next_id = 1
    /\ response_handlers = <<>>
    /\ requests = <<>>
    /\ writer = "running"
    /\ child = [alive |-> TRUE, stdin |-> <<>>, raised |-> 0]
    /\ output = <<>>
    /\ reader = [pc |-> "recv", lines |-> <<>>]
    /\ rpc = [c \in Callers |-> [pc |-> "idle", id |-> 0, inbox |-> NoResponse, ret |-> NoRet]]
    /\ issued = <<>>

\* The database and the service of a fresh vault, the service not started.
Init ==
    /\ DatabaseNew
    /\ ServiceNew
    /\ SidecarNew
    /\ todos_file = None

\* ------------------------------------------------- calling, locking, return
\* History kept in call[p].peer: when two save_object calls are in flight
\* together, each records the other's file_path and, once the other has
\* returned, its result; the record is dropped when a third call starts.
Peers(p, c) ==
    {q \in Tasks \ {p} : c.op = "save_object" /\ InCall(q) /\ call[q].op = "save_object"}
PeerOf(c) == [file_path |-> c.file_path, result |-> NoRet]

\* Task p calls a method: it now waits for the connection.
Issue(p, c) ==
    /\ pc[p] = "idle"
    /\ pc' = [pc EXCEPT ![p] = "lock"]
    /\ call' = [q \in Tasks |->
                  IF q = p
                  THEN IF Peers(p, c) = {} THEN c
                       ELSE [c EXCEPT !.peer = Some(PeerOf(call[CHOOSE q2 \in Peers(p, c) : TRUE]))]
                  ELSE IF q \in Peers(p, c) THEN [call[q] EXCEPT !.peer = Some(PeerOf(c))]
                  ELSE [call[q] EXCEPT !.peer = None]]
    /\ UNCHANGED <<tables, connection, clock, local, ret, pre, saved>>

\* A call of the command layer or of a plugin, one of at most MaxCalls.
Begin(p, c) ==
    /\ calls < MaxCalls
    /\ calls' = calls + 1
    /\ Issue(p, c)
    /\ UNCHANGED engine

\* The method runs without waiting for the guard.
Lock_NoWait(p, op) ==
    /\ pc[p] = "lock"
    /\ call[p].op = op
    /\ connection' = p
    /\ pre' = Snapshot
    /\ UNCHANGED <<call, calls, engine>>

\* `let conn = self.connection.lock().await;` the first statement of every
\* method, taken together with the method's first SQL statement.
Lock(p, op) ==
    /\ pc[p] = "lock"
    /\ call[p].op = op
    /\ connection = Unlocked
    /\ connection' = p
    /\ pre' = Snapshot
    /\ UNCHANGED <<call, calls, engine>>

\* A later statement of the method: the guard is still held.
Holding(p, label) ==
    /\ pc[p] = label
    /\ UNCHANGED <<connection, pre, call, calls, engine>>

Goto(p, label) == pc' = [pc EXCEPT ![p] = label] /\ UNCHANGED ret
Finish(p, r) == pc' = [pc EXCEPT ![p] = "ret"] /\ ret' = [ret EXCEPT ![p] = r]

\* A statement fails with a storage error: `?` returns it, nothing is written.
StatementFails(p) ==
    /\ Finish(p, StorageFailure)
    /\ UNCHANGED <<tables, clock, local, saved>>

\* The method returns: the guard `conn` is dropped and the caller has the result.
Return(p) ==
    /\ pc[p] = "ret"
    /\ connection' = IF connection = p THEN Unlocked ELSE connection
    /\ pc' = [pc EXCEPT ![p] = "idle"]
    /\ call' = [q \in Tasks |->
                  IF q = p THEN NoCall
                  ELSE IF InCall(q) /\ IsSome(call[q].peer) /\ IsSome(call[p].peer)
                       THEN [call[q] EXCEPT !.peer = Some([Unwrap(@) EXCEPT !.result = ret[p]])]
                       ELSE call[q]]
    /\ local' = [local EXCEPT ![p] = NoLocal]
    /\ ret' = [ret EXCEPT ![p] = NoRet]
    /\ pre' = NoSnapshot
    /\ UNCHANGED <<tables, clock, saved, calls>>

\* The method returns to a caller that is not the sync engine.
CallReturns(p) ==
    /\ Return(p)
    /\ UNCHANGED engine

\* Utc::now(): a reading t that is not before the last reading.
Readings == clock..MaxClock
UtcNow(t) == clock' = t

\* --------------------------------------------------------- register_schema
RegisterArguments ==
    { <<"core.todo", StrictSchemaJson>>,
      <<"plugin.note", StrictSchemaJson>>,
      <<"plugin.note", CutOffJson>> }

CallRegisterSchema(p) ==
    \E a \in RegisterArguments :
        /\ p = "command"
        /\ Begin(p, [NoCall EXCEPT !.op = "register_schema", !.schema_name = a[1],
                                   !.definition_json = a[2]])

\* INSERT OR REPLACE with the id column given as 1: the row of that id is
\* replaced too, whatever its name.
InsertOrReplaceSchema_FixedId(name, def, now) ==
    LET old == SchemaIdsNamed(name) \cup {1}
    IN  /\ schemas' = {r \in schemas : r.id \notin old}
                        \cup {[id |-> 1, schema_name |-> name, definition_json |-> def,
                               version |-> "1.0.0", created_at |-> now]}
        /\ DeleteObjects({o.id : o \in ObjectsOfSchemas(old)})
        /\ sqlite_sequence' = [sqlite_sequence EXCEPT !.schemas = 1]

\* A plain INSERT INTO schemas on a table without UNIQUE on schema_name.
InsertOrReplaceSchema_NoReplace(name, def, now) ==
    LET id == sqlite_sequence.schemas + 1
    IN  /\ schemas' = schemas \cup {[id |-> id, schema_name |-> name, definition_json |-> def,
                                      version |-> "1.0.0", created_at |-> now]}
        /\ UNCHANGED <<data_objects, object_content, object_permissions>>
        /\ sqlite_sequence' = [sqlite_sequence EXCEPT !.schemas = id]

\* INSERT OR REPLACE INTO schemas: a row with the same schema_name (UNIQUE) is
\* deleted first, and with foreign_keys = ON the delete cascades to the
\* data_objects rows that reference it and to their content and permissions
\* rows; the new row gets the next AUTOINCREMENT id.
InsertOrReplaceSchema(name, def, now) ==
    LET old == SchemaIdsNamed(name)
        id == sqlite_sequence.schemas + 1
    IN  /\ schemas' = {r \in schemas : r.id \notin old}
                        \cup {[id |-> id, schema_name |-> name, definition_json |-> def,
                               version |-> "1.0.0", created_at |-> now]}
        /\ DeleteObjects({o.id : o \in ObjectsOfSchemas(old)})
        /\ sqlite_sequence' = [sqlite_sequence EXCEPT !.schemas = id]

\* The definition is parsed (InvalidSchema if that fails), then the row is
\* written and last_insert_rowid() returned.
RegisterSchema(p) ==
    /\ Lock(p, "register_schema")
    /\ UNCHANGED <<local, saved>>
    /\ IF ~IsSome(from_str(call[p].definition_json))
       THEN /\ Finish(p, Err("InvalidSchema", ""))
            /\ UNCHANGED <<tables, clock>>
       ELSE \/ \E now \in Readings :
                 /\ UtcNow(now)
                 /\ InsertOrReplaceSchema(call[p].schema_name, call[p].definition_json, now)
                 /\ Finish(p, Ok(sqlite_sequence'.schemas))
            \/ StatementFails(p)

\* ------------------------------------------------------------- save_object
\* The command layer passes any arguments; the sync engine saves the records
\* of the todos file (sync_todos_file: "core.todo", the file's path, no permissions).
SaveArguments(p) ==
    IF p = "sync"
    THEN { <<"core.todo", NewTodo, Some(TodosPath), None>> }
    ELSE { <<"core.todo", NewTodo, None, None>>,
           <<"core.todo", FullTodo, Some(NotesPath), Some(SharedPermissions)>>,
           <<"plugin.note", FullTodo, Some(TodosPath), None>> }

CallSaveObject(p) ==
    \E a \in SaveArguments(p) :
        Begin(p, [NoCall EXCEPT !.op = "save_object", !.schema_name = a[1],
                                !.content = Some(a[2]), !.file_path = a[3],
                                !.permissions = a[4]])

\* SELECT id FROM schemas WHERE schema_name = ?1 (SchemaNotFound without a
\* row), then the timestamp and the serialized content.
SaveSelectSchema(p) ==
    /\ Lock(p, "save_object")
    /\ \/ StatementFails(p)
       \/ /\ LET found == SchemaIdsNamed(call[p].schema_name) IN
             IF found = {}
             THEN /\ Finish(p, Err("SchemaNotFound", ""))
                  /\ UNCHANGED <<clock, local>>
             ELSE \E now \in Readings :
                  /\ UtcNow(now)
                  /\ Goto(p, "save_insert_object")
                  /\ local' = [local EXCEPT ![p] =
                        [schema_id |-> CHOOSE id \in found : TRUE,
                         object_id |-> 0,
                         now |-> now]]
          /\ UNCHANGED <<tables, saved>>

\* INTEGER PRIMARY KEY without AUTOINCREMENT: the largest id in the table
\* plus one.
InsertDataObject_MaxRowid(schema_id, file_path, now) ==
    LET id == IF data_objects = {} THEN 1
              ELSE (CHOOSE i \in ObjectIds : \A k \in ObjectIds : k <= i) + 1 IN
    /\ data_objects' = data_objects \cup
          {[id |-> id, schema_id |-> schema_id, file_path |-> file_path,
            updated_at |-> now, created_at |-> now]}
    /\ sqlite_sequence' = [sqlite_sequence EXCEPT !.data_objects = id]

\* updated_at left at a column default instead of ?3.
InsertDataObject_DefaultUpdatedAt(schema_id, file_path, now) ==
    LET id == sqlite_sequence.data_objects + 1 IN
    /\ data_objects' = data_objects \cup
          {[id |-> id, schema_id |-> schema_id, file_path |-> file_path,
            updated_at |-> 0, created_at |-> now]}
    /\ sqlite_sequence' = [sqlite_sequence EXCEPT !.data_objects = id]

\* INSERT INTO data_objects: the row gets the next AUTOINCREMENT id.
InsertDataObject(schema_id, file_path, now) ==
    LET id == sqlite_sequence.data_objects + 1 IN
    /\ data_objects' = data_objects \cup
          {[id |-> id, schema_id |-> schema_id, file_path |-> file_path,
            updated_at |-> now, created_at |-> now]}
    /\ sqlite_sequence' = [sqlite_sequence EXCEPT !.data_objects = id]

\* data_objects without UNIQUE on file_path.
DataObjectConflict_NoUnique(schema_id, file_path) ==
    schema_id \notin {s.id : s \in schemas}

\* UNIQUE on file_path in which two NULLs collide as well.
DataObjectConflict_NullsCollide(schema_id, file_path) ==
    \/ {o \in data_objects : o.file_path = file_path} # {}
    \/ schema_id \notin {s.id : s \in schemas}

\* The constraints of data_objects: file_path is UNIQUE (NULLs do not collide)
\* and schema_id references a schemas row.
DataObjectConflict(schema_id, file_path) ==
    \/ IsSome(file_path) /\ ObjectsAtPath(Unwrap(file_path)) # {}
    \/ schema_id \notin {s.id : s \in schemas}

SaveInsertObject(p) ==
    /\ Holding(p, "save_insert_object")
    /\ \/ StatementFails(p)
       \/ /\ IF DataObjectConflict(local[p].schema_id, call[p].file_path)
             THEN /\ Finish(p, ConstraintViolation)
                  /\ UNCHANGED <<tables, local>>
             ELSE /\ InsertDataObject(local[p].schema_id, call[p].file_path, local[p].now)
                  /\ local' = [local EXCEPT ![p].object_id = sqlite_sequence'.data_objects]
                  /\ Goto(p, "save_insert_content")
                  /\ UNCHANGED <<schemas, object_content, object_permissions>>
          /\ UNCHANGED <<clock, saved>>

\* INSERT INTO object_content: object_id is the primary key and references a
\* data_objects row.
SaveInsertContent(p) ==
    /\ Holding(p, "save_insert_content")
    /\ \/ StatementFails(p)
       \/ /\ IF \/ RowsOf(object_content, {local[p].object_id}) # {}
                \/ local[p].object_id \notin ObjectIds
             THEN /\ Finish(p, ConstraintViolation)
                  /\ UNCHANGED object_content
             ELSE /\ object_content' = object_content \cup
                        {[object_id |-> local[p].object_id,
                          content_json |-> to_string(Unwrap(call[p].content))]}
                  /\ Goto(p, "save_insert_permissions")
          /\ UNCHANGED <<schemas, data_objects, object_permissions, sqlite_sequence,
                         clock, local, saved>>

\* permissions.unwrap_or(&default_perms)
PermissionsOrDefault(perms) == IF IsSome(perms) THEN Unwrap(perms) ELSE DefaultPermissions

PermissionsRow(id, perms) ==
    [object_id |-> id, share_with_ai |-> perms.share_with_ai,
     share_with_cloud |-> perms.share_with_cloud, read_only |-> perms.read_only,
     expires_at |-> perms.expires_at]

\* INSERT INTO object_permissions, then Ok(object_id).
SaveInsertPermissions(p) ==
    /\ Holding(p, "save_insert_permissions")
    /\ \/ StatementFails(p)
       \/ /\ IF \/ RowsOf(object_permissions, {local[p].object_id}) # {}
                \/ local[p].object_id \notin ObjectIds
             THEN /\ Finish(p, ConstraintViolation)
                  /\ UNCHANGED <<object_permissions, saved>>
             ELSE /\ object_permissions' = object_permissions \cup
                        {PermissionsRow(local[p].object_id,
                                        PermissionsOrDefault(call[p].permissions))}
                  /\ Finish(p, Ok(local[p].object_id))
                  /\ saved' = (local[p].object_id :>
                                 [schema_name |-> call[p].schema_name,
                                  content |-> Unwrap(call[p].content),
                                  file_path |-> call[p].file_path,
                                  permissions |-> PermissionsOrDefault(call[p].permissions)])
                              @@ saved
          /\ UNCHANGED <<schemas, data_objects, object_content, sqlite_sequence,
                         clock, local>>

\* ------------------------------------------------------------- load_object
\* The ids a caller passes: the ids given out so far, which objects have or
\* had, and the next one, which no object has yet.
CallIds == 1..(sqlite_sequence.data_objects + 1)

CallLoadObject(p) ==
    \E id \in CallIds :
        /\ p = "command"
        /\ Begin(p, [NoCall EXCEPT !.op = "load_object", !.object_id = id])

\* The rows of data_objects JOIN schemas JOIN object_content JOIN
\* object_permissions with the given object rows, as
\* <<object, schema, content, permissions>>.
JoinedRows(objects) ==
    {j \in objects \X schemas \X object_content \X object_permissions :
        /\ j[1].schema_id = j[2].id
        /\ j[1].id = j[3].object_id
        /\ j[1].id = j[4].object_id}

\* The row closure: the content column is deserialized, the other columns are
\* copied into the AppObject.
AppObject(j) ==
    [id |-> j[1].id,
     schema_name |-> j[2].schema_name,
     content |-> Unwrap(todo_from_str(j[3].content_json)),
     file_path |-> j[1].file_path,
     updated_at |-> j[1].updated_at,
     created_at |-> j[1].created_at,
     permissions |-> [share_with_ai |-> j[4].share_with_ai,
                      share_with_cloud |-> j[4].share_with_cloud,
                      read_only |-> j[4].read_only,
                      expires_at |-> j[4].expires_at]]

\* query_row(... WHERE do.id = ?1 ...).optional()? and
\* result.ok_or(NexusError::ObjectNotFound(object_id))
LoadResult(id) ==
    LET rows == JoinedRows({o \in data_objects : o.id = id}) IN
    IF rows = {} THEN Err("ObjectNotFound", "")
    ELSE LET j == CHOOSE r \in rows : TRUE IN
         IF IsSome(todo_from_str(j[3].content_json)) THEN Ok(AppObject(j))
         ELSE Err("Database", "column")

LoadObject(p) ==
    /\ Lock(p, "load_object")
    /\ \/ StatementFails(p)
       \/ /\ Finish(p, LoadResult(call[p].object_id))
          /\ UNCHANGED <<tables, clock, local, saved>>

\* -------------------------------------------------- load_objects_by_schema
CallLoadObjectsBySchema(p) ==
    /\ p = "sync"
    /\ Begin(p, [NoCall EXCEPT !.op = "load_objects_by_schema", !.schema_name = "core.todo"])

\* ORDER BY do.created_at DESC: every order of the rows in which created_at
\* does not increase (rows with equal created_at come in any order).
OrderedByCreatedAtDesc(rows) ==
    {q \in [1..Cardinality(rows) -> rows] :
        /\ \A i, k \in DOMAIN q : i # k => q[i] # q[k]
        /\ \A i, k \in DOMAIN q : i < k => q[i][1].created_at >= q[k][1].created_at}

\* The same join WHERE s.schema_name = ?1; `objects.push(row?)`: a row whose
\* content does not deserialize ends the method with that error.
LoadObjectsBySchema(p) ==
    /\ Lock(p, "load_objects_by_schema")
    /\ \/ StatementFails(p)
       \/ /\ LET rows == {j \in JoinedRows(data_objects) :
                            j[2].schema_name = call[p].schema_name} IN
             IF \E j \in rows : ~IsSome(todo_from_str(j[3].content_json))
             THEN Finish(p, Err("Database", "column"))
             ELSE \E q \in OrderedByCreatedAtDesc(rows) :
                    Finish(p, Ok([i \in DOMAIN q |-> AppObject(q[i])]))
          /\ UNCHANGED <<tables, clock, local, saved>>

\* ----------------------------------------------- update_object_permissions
CallUpdateObjectPermissions(p) ==
    \E id \in CallIds, perms \in {SharedPermissions} :
        /\ p = "command"
        /\ Begin(p, [NoCall EXCEPT !.op = "update_object_permissions", !.object_id = id,
                                   !.permissions = Some(perms)])

\* UPDATE object_permissions SET ... WHERE object_id = ?5
SetPermissions(id, perms) ==
    object_permissions' =
        {IF r.object_id = id THEN PermissionsRow(id, perms) ELSE r : r \in object_permissions}

\* The `updated == 0` check left out.
NoRowAffected_Unchecked(updated) == FALSE

\* `if updated == 0 { return Err(NexusError::ObjectNotFound(object_id)); }`
NoRowAffected(updated) == updated = 0

\* The permissions row is updated; ObjectNotFound when that changed no row.
UpdatePermissionsRow(p) ==
    /\ Lock(p, "update_object_permissions")
    /\ \/ StatementFails(p)
       \/ /\ LET id == call[p].object_id
                 updated == Cardinality(RowsOf(object_permissions, {id}))
             IN /\ SetPermissions(id, Unwrap(call[p].permissions))
                /\ IF NoRowAffected(updated)
                   THEN /\ Finish(p, Err("ObjectNotFound", ""))
                        /\ UNCHANGED saved
                   ELSE /\ saved' = IF id \in DOMAIN saved
                                    THEN [saved EXCEPT ![id].permissions =
                                                          Unwrap(call[p].permissions)]
                                    ELSE saved
                        /\ Goto(p, "update_timestamp")
          /\ UNCHANGED <<schemas, data_objects, object_content, sqlite_sequence,
                         clock, local>>

\* The UPDATE without its WHERE clause.
SetUpdatedAt_EveryRow(id, now) ==
    data_objects' = {[o EXCEPT !.updated_at = now] : o \in data_objects}

\* SET updated_at = ?1, created_at = ?1
SetUpdatedAt_CreatedAtToo(id, now) ==
    data_objects' = {IF o.id = id THEN [o EXCEPT !.updated_at = now, !.created_at = now]
                     ELSE o : o \in data_objects}

\* DELETE FROM data_objects WHERE id = ?2 in the place of the UPDATE.
SetUpdatedAt_DeleteRow(id, now) ==
    data_objects' = {o \in data_objects : o.id # id}

\* UPDATE data_objects SET updated_at = ?1 WHERE id = ?2
SetUpdatedAt(id, now) ==
    data_objects' = {IF o.id = id THEN [o EXCEPT !.updated_at = now] ELSE o : o \in data_objects}

\* The timestamp is taken and written, then Ok(()).
UpdateTimestamp(p) ==
    /\ Holding(p, "update_timestamp")
    /\ \/ StatementFails(p)
       \/ \E now \in Readings :
          /\ UtcNow(now)
          /\ SetUpdatedAt(call[p].object_id, now)
          /\ local' = [local EXCEPT ![p].now = now]
          /\ Finish(p, Ok(TRUE))
          /\ UNCHANGED <<schemas, object_content, object_permissions, sqlite_sequence,
                         saved>>

\* ----------------------------------------------------------- delete_object
CallDeleteObject(p) ==
    \E id \in CallIds :
        /\ p = "command"
        /\ Begin(p, [NoCall EXCEPT !.op = "delete_object", !.object_id = id])

\* DELETE FROM data_objects WHERE id = ?1, and ObjectNotFound when that
\* deleted no row.
DeleteObject(p) ==
    /\ Lock(p, "delete_object")
    /\ \/ StatementFails(p)
       \/ /\ LET id == call[p].object_id IN
             IF id \notin ObjectIds
             THEN /\ Finish(p, Err("ObjectNotFound", ""))
                  /\ UNCHANGED <<data_objects, object_content, object_permissions, saved>>
             ELSE /\ DeleteObjects({id})
                  /\ Finish(p, Ok(TRUE))
                  /\ saved' = [i \in DOMAIN saved \ {id} |-> saved[i]]
          /\ UNCHANGED <<schemas, sqlite_sequence, clock, local>>

\* -------------------------------------------- update_object_from_file_path
CallUpdateObjectFromFilePath(p) ==
    \E path \in FilePaths :
        /\ p = "sync"
        /\ Begin(p, [NoCall EXCEPT !.op = "update_object_from_file_path",
                                   !.file_path = Some(path)])

\* SELECT id FROM data_objects WHERE file_path = ?1; Ok(None) without a row.
TouchSelect(p) ==
    /\ Lock(p, "update_object_from_file_path")
    /\ \/ StatementFails(p)
       \/ /\ LET found == ObjectsAtPath(Unwrap(call[p].file_path)) IN
             IF found = {}
             THEN /\ Finish(p, Ok(None))
                  /\ UNCHANGED local
             ELSE /\ local' = [local EXCEPT ![p].object_id = (CHOOSE o \in found : TRUE).id]
                  /\ Goto(p, "touch_update")
          /\ UNCHANGED <<tables, clock, saved>>

\* UPDATE data_objects SET updated_at = ?1 WHERE id = ?2, then Ok(object_id).
TouchUpdate(p) ==
    /\ Holding(p, "touch_update")
    /\ \/ StatementFails(p)
       \/ \E now \in Readings :
          /\ UtcNow(now)
          /\ SetUpdatedAt(local[p].object_id, now)
          /\ local' = [local EXCEPT ![p].now = now]
          /\ Finish(p, Ok(Some(local[p].object_id)))
          /\ UNCHANGED <<schemas, object_content, object_permissions, sqlite_sequence,
                         saved>>

\* ----------------------------------------------------------- get_sync_info
CallGetSyncInfo(p) ==
    /\ p = "command"
    /\ Begin(p, [NoCall EXCEPT !.op = "get_sync_info"])

\* SELECT COUNT(*) FROM data_objects
SyncInfoCount(p) ==
    /\ Lock(p, "get_sync_info")
    /\ \/ StatementFails(p)
       \/ /\ Goto(p, "sync_info_max")
          /\ UNCHANGED <<tables, clock, local, saved>>

\* SELECT MAX(updated_at) FROM data_objects ("Never" when it is NULL), then
\* Ok((count, last_updated)); the guard was held since the count.
SyncInfoMax(p) ==
    /\ Holding(p, "sync_info_max")
    /\ \/ StatementFails(p)
       \/ /\ LET times == {o.updated_at : o \in data_objects}
                 last_updated == IF times = {} THEN "Never"
                                 ELSE CHOOSE t \in times : \A u \in times : u <= t
             IN Finish(p, Ok(<<Cardinality(data_objects), last_updated>>))
          /\ UNCHANGED <<tables, clock, local, saved>>

\* ------------------------------------------------------------------- Spec
Next ==
    \E p \in Tasks :
        \/ CallRegisterSchema(p)
        \/ CallSaveObject(p)
        \/ CallLoadObject(p)
        \/ CallLoadObjectsBySchema(p)
        \/ CallUpdateObjectPermissions(p)
        \/ CallDeleteObject(p)
        \/ CallUpdateObjectFromFilePath(p)
        \/ CallGetSyncInfo(p)
        \/ RegisterSchema(p)
        \/ SaveSelectSchema(p)
        \/ SaveInsertObject(p)
        \/ SaveInsertContent(p)
        \/ SaveInsertPermissions(p)
        \/ LoadObject(p)
        \/ LoadObjectsBySchema(p)
        \/ UpdatePermissionsRow(p)
        \/ UpdateTimestamp(p)
        \/ DeleteObject(p)
        \/ TouchSelect(p)
        \/ TouchUpdate(p)
        \/ SyncInfoCount(p)
        \/ SyncInfoMax(p)
        \/ CallReturns(p)

Spec == Init /\ [][Next]_vars

\* ------------------------------------------------------------- sync engine
\* The files of the vault that events name, as path components below the
\* vault directory, and the characters of their file names.
\* RawByte stands for a byte that is not valid UTF-8 (file names are OsStr),
\* Replacement for U+FFFD, which to_string_lossy puts in its place.
NexusPath == ".nexus/vault.json"
BackupPath == "Todo/~todos.json"
MarkdownPath == "Notes/b.md"
HiddenPath == "Notes/.a.json"
TempPath == "Notes/a.json.tmp"
RawByte == "0xFF"
Replacement == "U+FFFD"
RawHiddenPath == "Notes/.0xFF.json"
LossyHiddenPath == "Notes/.U+FFFD.json"
VaultPaths ==
    {TodosPath, NotesPath, NexusPath, BackupPath, MarkdownPath, HiddenPath, TempPath,
     RawHiddenPath}
components(path) ==
    CASE path = TodosPath -> <<"Todo", "todos.json">>
      [] path = NotesPath -> <<"Notes", "a.json">>
      [] path = NexusPath -> <<".nexus", "vault.json">>
      [] path = BackupPath -> <<"Todo", "~todos.json">>
      [] path = MarkdownPath -> <<"Notes", "b.md">>
      [] path = HiddenPath -> <<"Notes", ".a.json">>
      [] path = TempPath -> <<"Notes", "a.json.tmp">>
      [] path = RawHiddenPath -> <<"Notes", ".0xFF.json">>
      [] path = LossyHiddenPath -> <<"Notes", ".U+FFFD.json">>
chars(name) ==
    CASE name = "todos.json" -> <<"t", "o", "d", "o", "s", ".", "j", "s", "o", "n">>
      [] name = "a.json" -> <<"a", ".", "j", "s", "o", "n">>
      [] name = "vault.json" -> <<"v", "a", "u", "l", "t", ".", "j", "s", "o", "n">>
      [] name = "~todos.json" -> <<"~", "t", "o", "d", "o", "s", ".", "j", "s", "o", "n">>
      [] name = "b.md" -> <<"b", ".", "m", "d">>
      [] name = ".a.json" -> <<".", "a", ".", "j", "s", "o", "n">>
      [] name = "a.json.tmp" -> <<"a", ".", "j", "s", "o", "n", ".", "t", "m", "p">>
      [] name = ".0xFF.json" -> <<".", RawByte, ".", "j", "s", "o", "n">>
      [] name = ".U+FFFD.json" -> <<".", Replacement, ".", "j", "s", "o", "n">>

\* A filter that lets every path through.
under_nexus_Never(path) == FALSE

\* Path::starts_with(vault_path.join(".nexus")), Path::file_name,
\* OsStr::to_str (none when a byte is not valid UTF-8), str::starts_with,
\* str::ends_with, Path::extension and Path::to_string_lossy.
under_nexus(path) == components(path)[1] = ".nexus"
file_name(path) == components(path)[Len(components(path))]
to_str(cs) == IF \E i \in DOMAIN cs : cs[i] = RawByte THEN None ELSE Some(cs)
to_string_lossy(path) ==
    LET lossy(cs) == [i \in DOMAIN cs |-> IF cs[i] = RawByte THEN Replacement ELSE cs[i]]
        name == file_name(path)
    IN CHOOSE q \in VaultPaths \cup {LossyHiddenPath} :
          /\ Len(components(q)) = Len(components(path))
          /\ \A i \in 1..(Len(components(q)) - 1) : components(q)[i] = components(path)[i]
          /\ chars(file_name(q)) = lossy(chars(name))
starts_with(name, c) == Len(chars(name)) > 0 /\ chars(name)[1] = c
ends_with(name, suffix) ==
    /\ Len(chars(name)) >= Len(suffix)
    /\ SubSeq(chars(name), Len(chars(name)) - Len(suffix) + 1, Len(chars(name))) = suffix
extension(path) ==
    LET name == chars(file_name(path))
        dots == {i \in 1..Len(name) : name[i] = "."}
    IN IF dots = {} \/ dots = {1} THEN None
       ELSE LET last == CHOOSE i \in dots : \A k \in dots : k <= i
            IN Some(SubSeq(name, last + 1, Len(name)))

\* The todos file: the record of a first todo, of a second one, and the texts
\* {"todos":[...]} with one and with two records and one that is cut off.
FirstTodoJson ==
    <<LBrace, StrTok("id"), Colon, NumTok(1), Comma,
      StrTok("text"), Colon, StrTok("buy milk"), Comma,
      StrTok("completed"), Colon, KwFalse, Comma,
      StrTok("created_at"), Colon, StrTok("2024-01-01T00:00:00Z"), RBrace>>
SecondTodoJson ==
    <<LBrace, StrTok("id"), Colon, NumTok(2), Comma,
      StrTok("text"), Colon, StrTok("call mom"), Comma,
      StrTok("completed"), Colon, KwTrue, Comma,
      StrTok("created_at"), Colon, StrTok("2024-01-02T00:00:00Z"), RBrace>>
OneTodoFile ==
    <<LBrace, StrTok("todos"), Colon, LBracket>> \o FirstTodoJson \o <<RBracket, RBrace>>
TwoTodosFile ==
    <<LBrace, StrTok("todos"), Colon, LBracket>> \o FirstTodoJson \o <<Comma>>
      \o SecondTodoJson \o <<RBracket, RBrace>>
CutOffFile == <<LBrace, StrTok("todos"), Colon, LBracket>> \o FirstTodoJson
TodosFiles == {None, Some(OneTodoFile), Some(TwoTodosFile), Some(CutOffFile)}
\* The malformed text {"todos":[} that is written while the engine watches.
BrokenFile == <<LBrace, StrTok("todos"), Colon, LBracket, RBrace>>

\* todo_list.get("todos").and_then(|v| v.as_array()): the elements, or none.
todos_array(v) ==
    IF v[1] = "obj" /\ Members(v, "todos") # {} /\ Member(v, "todos")[1] = "arr"
    THEN Member(v, "todos")[2]
    ELSE <<>>

\* The debounced events the watcher sends.
FileEvents ==
    { [kind |-> "Modify", paths |-> <<TodosPath>>],
      [kind |-> "Create", paths |-> <<NexusPath, HiddenPath, NotesPath, MarkdownPath>>],
      [kind |-> "Remove", paths |-> <<NexusPath, TempPath, RawHiddenPath, TodosPath>>],
      [kind |-> "Modify", paths |-> <<NexusPath, BackupPath, NotesPath, TodosPath>>],
      [kind |-> "Access", paths |-> <<NotesPath>>] }

\* Database::new on the vault of an earlier session, in which "plugin.note"
\* was registered and one note saved with the path of its Markdown file: the
\* tables are kept (CREATE TABLE IF NOT EXISTS) and register_core_schemas
\* writes the "core.todo" row again, under the next id.
ExistingVault ==
    /\ schemas = {[id |-> 2, schema_name |-> "plugin.note",
                   definition_json |-> StrictSchemaJson, version |-> "1.0.0",
                   created_at |-> 0],
                  [id |-> 3, schema_name |-> "core.todo",
                   definition_json |-> TodoSchemaJson, version |-> "1.0.0",
                   created_at |-> 0]}
    /\ data_objects = {[id |-> 1, schema_id |-> 2, file_path |-> Some(MarkdownPath),
                        updated_at |-> 0, created_at |-> 0]}
    /\ object_content = {[object_id |-> 1, content_json |-> to_string(NewTodo)]}
    /\ object_permissions = {PermissionsRow(1, DefaultPermissions)}
    /\ sqlite_sequence = [schemas |-> 3, data_objects |-> 1]
    /\ connection = Unlocked
    /\ clock = 0
    /\ pc = [p \in Tasks |-> "idle"]
    /\ call = [p \in Tasks |-> NoCall]
    /\ local = [p \in Tasks |-> NoLocal]
    /\ ret = [p \in Tasks |-> NoRet]
    /\ pre = NoSnapshot
    /\ saved = (1 :> [schema_name |-> "plugin.note", content |-> NewTodo,
                      file_path |-> Some(MarkdownPath),
                      permissions |-> DefaultPermissions])
    /\ calls = 0

\* The service constructed on a fresh vault with some todos file, or on the
\* vault of an earlier session that holds a note and no todos file.
InitSync ==
    /\ ServiceNew
    /\ SidecarNew
    /\ \/ DatabaseNew /\ todos_file \in TodosFiles
       \/ ExistingVault /\ todos_file = None

\* start() runs on the command layer's task, the consumer on the spawned one.
Starter == "command"
Consumer == "sync"

\* status.errors.push: what the entry says.
ScanError(e) == [prefix |-> "Initial todos sync failed: ", error |-> e]
EventError(e) == [prefix |-> "", error |-> e]

\* The objects a load of every schema would return: ids, schema names,
\* contents and file paths.
StoredObjects ==
    {[id |-> AppObject(j).id, schema_name |-> AppObject(j).schema_name,
      content |-> AppObject(j).content, file_path |-> AppObject(j).file_path] :
        j \in JoinedRows(data_objects)}

\* perform_initial_scan, its first block: the status says a scan is running.
\* start() calls it.
ScanBegin ==
    /\ service.pc = "new"
    /\ status' = [status EXCEPT !.is_syncing = TRUE, !.pending_changes = 0, !.errors = <<>>]
    /\ service' = [service EXCEPT !.pc = "scan_file"]
    /\ UNCHANGED <<store, todos_file, events, consumer, emitted, beside>>

\* A force_sync whose first block leaves status.errors as it is.
ForceSync_KeepsErrors ==
    /\ service.pc = "watching"
    /\ service.forced < MaxSyncs
    /\ status' = [status EXCEPT !.is_syncing = TRUE, !.pending_changes = 0]
    /\ service' = [service EXCEPT !.pc = "scan_file", !.forced = @ + 1,
                                  !.before = StoredObjects]
    /\ UNCHANGED <<store, todos_file, events, consumer, emitted, beside>>

\* force_sync, called on the started service: perform_initial_scan again,
\* while the watcher and the consumer task go on.
ForceSync ==
    /\ service.pc = "watching"
    /\ service.forced < MaxSyncs
    /\ status' = [status EXCEPT !.is_syncing = TRUE, !.pending_changes = 0, !.errors = <<>>]
    /\ service' = [service EXCEPT !.pc = "scan_file", !.forced = @ + 1,
                                  !.before = StoredObjects]
    /\ UNCHANGED <<store, todos_file, events, consumer, emitted, beside>>

\* todos_path.exists(), read_to_string and serde_json::from_str of
\* sync_todos_file: an absent file is skipped, a text that does not parse is
\* an error, else the elements of "todos" are the records to save.
ScanReadFile ==
    /\ service.pc = "scan_file"
    /\ LET read == [service EXCEPT !.seen = todos_file,
                                   !.unchanged = (service.forced > 0 /\ todos_file = service.seen)]
       IN service' =
             IF ~IsSome(todos_file) THEN [read EXCEPT !.pc = "scan_end"]
             ELSE LET parsed == from_str(Unwrap(todos_file)) IN
                  IF ~IsSome(parsed)
                  THEN [read EXCEPT !.pc = "scan_failed", !.error = Err("Json", "")]
                  ELSE [read EXCEPT !.pc = "scan_record",
                                    !.todos = todos_array(Unwrap(parsed))]
    /\ UNCHANGED <<store, todos_file, status, events, consumer, emitted, beside>>

\* The loop of sync_todos_file: serde_json::from_value of the next element,
\* then save_object("core.todo", &todo, Some(todos_path), None).
ScanRecord ==
    /\ service.pc = "scan_record"
    /\ IF service.todos = <<>>
       THEN /\ service' = [service EXCEPT !.pc = "scan_end"]
            /\ UNCHANGED store
       ELSE LET todo == todo_from_value(Head(service.todos)) IN
            IF ~IsSome(todo)
            THEN /\ service' = [service EXCEPT !.pc = "scan_failed", !.todos = <<>>,
                                               !.error = Err("Json", "")]
                 /\ UNCHANGED store
            ELSE /\ Issue(Starter, [NoCall EXCEPT !.op = "save_object",
                                                  !.schema_name = "core.todo",
                                                  !.content = todo,
                                                  !.file_path = Some(TodosPath),
                                                  !.permissions = None])
                 /\ service' = [service EXCEPT !.pc = "scan_saving"]
                 /\ UNCHANGED calls
    /\ UNCHANGED <<todos_file, status, events, consumer, emitted, beside>>

\* `.await?` on save_object: an error ends sync_todos_file, else the loop goes on.
ScanSaved ==
    /\ service.pc = "scan_saving"
    /\ Return(Starter)
    /\ service' =
          IF ret[Starter].status = "Ok"
          THEN [service EXCEPT !.pc = "scan_record", !.todos = Tail(@)]
          ELSE [service EXCEPT !.pc = "scan_failed", !.todos = <<>>, !.error = ret[Starter]]
    /\ UNCHANGED <<todos_file, status, events, consumer, emitted, beside>>

\* `if let Err(e) = self.sync_todos_file(..)`: the error is pushed to the status.
ScanRecordsError ==
    /\ service.pc = "scan_failed"
    /\ status' = [status EXCEPT !.errors = Append(@, ScanError(service.error))]
    /\ service' = [service EXCEPT !.pc = "scan_end", !.error = NoRet]
    /\ UNCHANGED <<store, todos_file, events, consumer, emitted, beside>>

\* perform_initial_scan, its last block: the scan is over, last_sync is now.
ScanEnd ==
    /\ service.pc = "scan_end"
    /\ \E now \in Readings :
          /\ UtcNow(now)
          /\ status' = [status EXCEPT !.is_syncing = FALSE, !.last_sync = Some(now)]
    /\ service' = [service EXCEPT !.pc = IF service.watcher THEN "watching" ELSE "scanned"]
    /\ UNCHANGED <<tables, connection, pc, call, local, ret, pre, saved, calls,
                   todos_file, events, consumer, emitted, beside>>

\* A start() that sets up the watcher and the consumer before it scans.
StartWatching_BeforeScan ==
    /\ service.pc = "new"
    /\ ~service.watcher
    /\ service' = [service EXCEPT !.watcher = TRUE]
    /\ consumer' = [consumer EXCEPT !.pc = "recv"]
    /\ UNCHANGED <<store, todos_file, status, events, emitted, beside>>

\* new_debouncer and watch succeed: the watcher is kept and the consumer task
\* is spawned; start returns Ok.
StartWatching ==
    /\ service.pc = "scanned"
    /\ service' = [service EXCEPT !.pc = "watching", !.watcher = TRUE]
    /\ consumer' = [consumer EXCEPT !.pc = "recv"]
    /\ UNCHANGED <<store, todos_file, status, events, emitted, beside>>

\* The same failure found only after the consumer task was spawned.
WatchFails_Spawned ==
    /\ service.pc = "scanned"
    /\ service' = [service EXCEPT !.pc = "failed", !.error = Err("Notify", "")]
    /\ consumer' = [consumer EXCEPT !.pc = "recv"]
    /\ UNCHANGED <<store, todos_file, status, events, emitted, beside>>

\* new_debouncer or watch fails: `?` returns the Notify error, nothing is
\* watched and no task is spawned.
WatchFails ==
    /\ service.pc = "scanned"
    /\ service' = [service EXCEPT !.pc = "failed", !.error = Err("Notify", "")]
    /\ UNCHANGED <<store, todos_file, status, events, consumer, emitted, beside>>

\* The command layer replaces the service of its state by a new one
\* (initialize_vault_backend run again): the SyncService is dropped, and with
\* it the debouncer and the sender of the channel. The spawned consumer task
\* is detached and keeps the receiver.
ServiceDropped ==
    /\ service.pc = "watching"
    /\ service' = [service EXCEPT !.pc = "dropped", !.watcher = FALSE]
    /\ UNCHANGED <<store, todos_file, status, events, consumer, emitted, beside>>

\* rx.recv() returns None, the channel being closed and empty: the loop of
\* the consumer task ends.
ConsumerExits ==
    /\ consumer.pc = "recv"
    /\ events = <<>>
    /\ service.pc = "dropped"
    /\ \A k \in DOMAIN senders : senders[k] = <<>>
    /\ consumer' = [consumer EXCEPT !.pc = "exited"]
    /\ UNCHANGED <<store, todos_file, status, events, service, emitted, beside>>

\* The debouncer's callback sends an event of the watched directory.
FileEvent ==
    /\ service.watcher
    /\ emitted < MaxEvents
    /\ \E e \in FileEvents : events' = Append(events, e)
    /\ emitted' = emitted + 1
    /\ UNCHANGED <<store, todos_file, status, service, consumer, beside>>

\* Somebody appends a second todo to the todos file; the watcher sees it.
AppendTodo ==
    /\ service.watcher
    /\ emitted < MaxEvents
    /\ todos_file = Some(OneTodoFile)
    /\ todos_file' = Some(TwoTodosFile)
    /\ events' = Append(events, [kind |-> "Modify", paths |-> <<TodosPath>>])
    /\ emitted' = emitted + 1
    /\ UNCHANGED <<store, status, service, consumer, beside>>

\* Somebody creates the todos file with a malformed text; the watcher sees it.
CreateMalformedFile ==
    /\ service.watcher
    /\ emitted < MaxEvents
    /\ todos_file = None
    /\ todos_file' = Some(BrokenFile)
    /\ events' = Append(events, [kind |-> "Create", paths |-> <<TodosPath>>])
    /\ emitted' = emitted + 1
    /\ UNCHANGED <<store, status, service, consumer, beside>>

\* rx.recv() yields an event and handle_file_event runs its first block.
EventBegin ==
    /\ consumer.pc = "recv"
    /\ events # <<>>
    /\ events' = Tail(events)
    /\ consumer' = [consumer EXCEPT !.pc = "path", !.event = Head(events), !.i = 1]
    /\ status' = [status EXCEPT !.is_syncing = TRUE, !.pending_changes = @ + 1]
    /\ UNCHANGED <<store, todos_file, service, emitted, beside>>

\* The path is skipped: below .nexus, or a hidden or temporary file.
\* The name tests apply only when the file name is valid UTF-8
\* (`if let Some(file_name) = path.file_name().and_then(|n| n.to_str())`).
Skipped(path) ==
    \/ under_nexus(path)
    \/ /\ IsSome(to_str(chars(file_name(path))))
       /\ \/ starts_with(file_name(path), ".")
          \/ starts_with(file_name(path), "~")
          \/ ends_with(file_name(path), <<".", "t", "m", "p">>)

\* path.extension().and_then(|s| s.to_str()) == Some("json")
IsJson(path) ==
    /\ IsSome(extension(path))
    /\ to_str(Unwrap(extension(path))) = Some(<<"j", "s", "o", "n">>)

\* database.update_object_from_file_path(&path_str), path_str being
\* file_path.to_string_lossy().to_string().
UpdateObjectFromFilePath(path) ==
    [NoCall EXCEPT !.op = "update_object_from_file_path",
                   !.file_path = Some(to_string_lossy(path))]

\* One turn of `for path in &event.paths`, up to the first call of the
\* database: handle_json_file_change for a created or modified .json file
\* (sync_todos_file_from_db first when it is todos.json), handle_file_deletion
\* for a removed file, nothing for the other kinds.
EventPath ==
    /\ consumer.pc = "path"
    /\ IF consumer.i > Len(consumer.event.paths)
       THEN /\ consumer' = [consumer EXCEPT !.pc = "event_end"]
            /\ UNCHANGED store
       ELSE LET path == consumer.event.paths[consumer.i] IN
            IF Skipped(path)
            THEN /\ consumer' = [consumer EXCEPT !.i = @ + 1]
                 /\ UNCHANGED store
            ELSE IF /\ consumer.event.kind \in {"Create", "Modify"}
                    /\ IsJson(path)
                    /\ file_name(path) = "todos.json"
            THEN /\ Issue(Consumer, [NoCall EXCEPT !.op = "load_objects_by_schema",
                                                   !.schema_name = "core.todo"])
                 /\ consumer' = [consumer EXCEPT !.pc = "loading"]
                 /\ UNCHANGED calls
            ELSE IF \/ /\ consumer.event.kind \in {"Create", "Modify"}
                       /\ IsJson(path)
                    \/ consumer.event.kind = "Remove"
            THEN /\ Issue(Consumer, UpdateObjectFromFilePath(path))
                 /\ consumer' = [consumer EXCEPT !.pc = "touching"]
                 /\ UNCHANGED calls
            ELSE /\ consumer' = [consumer EXCEPT !.i = @ + 1]
                 /\ UNCHANGED store
    /\ UNCHANGED <<todos_file, status, events, service, emitted, beside>>

\* sync_todos_file_from_db: `.await?` on load_objects_by_schema; the todos are
\* counted for the log and dropped.
EventLoaded ==
    /\ consumer.pc = "loading"
    /\ Return(Consumer)
    /\ consumer' =
          IF ret[Consumer].status = "Ok"
          THEN [consumer EXCEPT !.pc = "touch"]
          ELSE [consumer EXCEPT !.pc = "failed", !.error = ret[Consumer]]
    /\ UNCHANGED <<todos_file, status, events, service, emitted, beside>>

\* handle_json_file_change goes on: update_object_from_file_path(&path_str).
EventTouch ==
    /\ consumer.pc = "touch"
    /\ Issue(Consumer, UpdateObjectFromFilePath(consumer.event.paths[consumer.i]))
    /\ consumer' = [consumer EXCEPT !.pc = "touching"]
    /\ UNCHANGED <<calls, todos_file, status, events, service, emitted, beside>>

\* `.await?` on update_object_from_file_path: an error ends handle_file_event
\* at once, else the loop takes the next path.
EventTouched ==
    /\ consumer.pc = "touching"
    /\ Return(Consumer)
    /\ consumer' =
          IF ret[Consumer].status = "Ok"
          THEN [consumer EXCEPT !.pc = "path", !.i = @ + 1]
          ELSE [consumer EXCEPT !.pc = "failed", !.error = ret[Consumer]]
    /\ UNCHANGED <<todos_file, status, events, service, emitted, beside>>

\* handle_file_event, its last block: the batch is over, last_sync is now.
EventEnd ==
    /\ consumer.pc = "event_end"
    /\ \E now \in Readings :
          /\ UtcNow(now)
          /\ status' = [status EXCEPT !.is_syncing = FALSE,
                                      !.pending_changes = IF @ = 0 THEN 0 ELSE @ - 1,
                                      !.last_sync = Some(now)]
    /\ consumer' = [consumer EXCEPT !.pc = "recv", !.event = NoEvent, !.i = 0]
    /\ UNCHANGED <<tables, connection, pc, call, local, ret, pre, saved, calls,
                   todos_file, events, service, emitted, beside>>

\* The consumer's `if let Err(e) = Self::handle_file_event(..)`: the error is
\* pushed to the status and the loop waits for the next event.
EventFailed ==
    /\ consumer.pc = "failed"
    /\ status' = [status EXCEPT !.errors = Append(@, EventError(consumer.error))]
    /\ consumer' = [consumer EXCEPT !.pc = "recv", !.event = NoEvent, !.i = 0,
                                    !.error = NoRet]
    /\ UNCHANGED <<store, todos_file, events, service, emitted, beside>>

NextSync ==
    \/ ScanBegin
    \/ ForceSync
    \/ ScanReadFile
    \/ ScanRecord
    \/ ScanSaved
    \/ ScanRecordsError
    \/ ScanEnd
    \/ StartWatching
    \/ WatchFails
    \/ ServiceDropped
    \/ ConsumerExits
    \/ FileEvent
    \/ AppendTodo
    \/ CreateMalformedFile
    \/ EventBegin
    \/ EventPath
    \/ EventLoaded
    \/ EventTouch
    \/ EventTouched
    \/ EventEnd
    \/ EventFailed
    \/ \E p \in Tasks :
          \/ SaveSelectSchema(p)
          \/ SaveInsertObject(p)
          \/ SaveInsertContent(p)
          \/ SaveInsertPermissions(p)
          \/ LoadObjectsBySchema(p)
          \/ TouchSelect(p)
          \/ TouchUpdate(p)

SyncSpec == InitSync /\ [][NextSync]_vars

\* ------------------------------------------------------ delivery of events
\* SyncSpec takes the callback's `tx.send(event)` as one step with the
\* callback. Here the callback and the tasks it spawns are told apart: each
\* call of the callback gets a batch of events and spawns one task, which
\* sends the events of its batch one by one.

\* The batches the debouncer hands over: one event or two, each naming one file.
Batches ==
    LET single == {e \in FileEvents : Len(e.paths) = 1}
    IN {<<e>> : e \in single} \cup {<<e, f>> : e \in single, f \in single}

\* A fresh vault without a todos file or with one todo in it.
InitDelivery ==
    /\ ServiceNew
    /\ SidecarNew
    /\ DatabaseNew
    /\ todos_file \in {None, Some(OneTodoFile)}

\* The callback is called with Ok(events): tokio::spawn of a task that owns
\* the events and a clone of the sender. History: each event keeps the
\* number of the call it came with.
Debounced ==
    /\ service.watcher
    /\ \E batch \in Batches :
          /\ emitted + Len(batch) <= MaxEvents
          /\ senders' = Append(senders,
                [i \in DOMAIN batch |->
                    [kind |-> batch[i].kind, paths |-> batch[i].paths,
                     batch |-> Len(senders) + 1]])
          /\ emitted' = emitted + Len(batch)
    /\ UNCHANGED <<store, todos_file, status, events, service, consumer, plugin>>

\* A spawned task runs `tx.send(event).await` for the next event of its
\* `for event in events`.
TaskSends ==
    \E k \in DOMAIN senders :
        /\ senders[k] # <<>>
        /\ events' = Append(events, Head(senders[k]))
        /\ senders' = [senders EXCEPT ![k] = Tail(@)]
        /\ UNCHANGED <<store, todos_file, status, service, consumer, emitted, plugin>>

NextDelivery ==
    \/ ScanBegin
    \/ ForceSync
    \/ ScanReadFile
    \/ ScanRecord
    \/ ScanSaved
    \/ ScanRecordsError
    \/ ScanEnd
    \/ StartWatching
    \/ WatchFails
    \/ ServiceDropped
    \/ ConsumerExits
    \/ Debounced
    \/ TaskSends
    \/ EventBegin
    \/ EventPath
    \/ EventLoaded
    \/ EventTouch
    \/ EventTouched
    \/ EventEnd
    \/ EventFailed
    \/ \E p \in Tasks :
          \/ SaveSelectSchema(p)
          \/ SaveInsertObject(p)
          \/ SaveInsertContent(p)
          \/ SaveInsertPermissions(p)
          \/ LoadObjectsBySchema(p)
          \/ TouchSelect(p)
          \/ TouchUpdate(p)

DeliverySpec == InitDelivery /\ [][NextDelivery]_vars

\* ---------------------------------------------- sidecar.rs: the plugin RPC
\* The callers are tasks that share the SidecarManager; the writer task and
\* the reader task are spawned by SidecarManager::new and own the receiving
\* ends, the manager keeps the sender and the handler map. The sidecar
\* process is the environment: it may print any line at any time.
outside == <<store, todos_file, status, events, service, consumer, emitted, senders>>

RequestCapacity == 100
Method(c) == IF c = "ping_plugins" THEN "ping" ELSE "get_info"

\* serde_json::to_string(&RpcRequest): id, method, params (Value::Null).
request_to_string(request) ==
    <<LBrace>>
      \o SerField("id", <<NumTok(request.id)>>) \o <<Comma>>
      \o SerField("method", <<StrTok(request.method)>>) \o <<Comma>>
      \o SerField("params", <<KwNull>>)
      \o <<RBrace>>

\* #[derive(Deserialize)] for RpcResponse: id is a u64, result any value or
\* absent, error a string or absent; null reads as None.
RpcResponseWellTyped(v) ==
    /\ v[1] = "obj"
    /\ Required(v, "id", "num")
    /\ Member(v, "id")[2] >= 0
    /\ Cardinality(Members(v, "result")) <= 1
    /\ Optional(v, "error", "str")

\* serde_json::from_str::<RpcResponse>: None stands for Err.
response_from_str(line) ==
    LET parsed == from_str(line) IN
    IF ~IsSome(parsed) THEN None
    ELSE LET v == Unwrap(parsed) IN
         IF ~RpcResponseWellTyped(v) THEN None
         ELSE Some([id |-> Member(v, "id")[2],
                    result |-> IF Members(v, "result") = {} \/ Member(v, "result") = JNull
                               THEN None ELSE Some(Member(v, "result")),
                    error |-> OptionOf(v, "error")])

\* What the sidecar prints: an answer or a refusal carrying a request id, a
\* line without an id, an empty line.
Answer(id) ==
    <<LBrace, StrTok("id"), Colon, NumTok(id), Comma,
      StrTok("result"), Colon, StrTok("pong"), RBrace>>
Refusal(id) ==
    <<LBrace, StrTok("id"), Colon, NumTok(id), Comma,
      StrTok("result"), Colon, KwNull, Comma,
      StrTok("error"), Colon, StrTok("unknown method"), RBrace>>
NoIdLine == <<LBrace, StrTok("result"), Colon, KwTrue, RBrace>>
BlankLine == <<>>
Lines ==
    {Answer(id) : id \in 1..MaxRequests} \cup {Refusal(1), NoIdLine, BlankLine}
\* The data of one Stdout event: one line, or two lines of which the second
\* answers the first request.
Chunks ==
    {<<l>> : l \in Lines}
      \cup {<<l, Answer(1)>> : l \in {BlankLine, Answer(MaxRequests)}}

\* What the reader makes of each line: nothing of an empty line, else what
\* from_str reads, None for Err.
Read == [line \in Lines |-> IF line = BlankLine THEN None ELSE response_from_str(line)]

\* HashMap::insert and HashMap::remove on the handler map.
insert(handlers, id, sender) == (id :> sender) @@ handlers
\* A lookup that takes out whatever entry it finds first.
remove_any(handlers, id) ==
    IF DOMAIN handlers = {} THEN None ELSE Some(CHOOSE k \in DOMAIN handlers : TRUE)
\* The key whose entry `handlers.remove(&response.id)` takes out, if any.
remove(handlers, id) == IF id \in DOMAIN handlers THEN Some(id) ELSE None
without(handlers, id) == [k \in DOMAIN handlers \ {id} |-> handlers[k]]

\* The receiver of the oneshot channel made by the call with this id is alive
\* while its caller is still in that call.
Receiving(c, id) == rpc[c].id = id /\ rpc[c].pc \in {"send", "await"}

\* send_request, first block: the id is read and incremented under the lock.
SendRequestTakeId(c) ==
    /\ rpc[c].pc = "idle"
    /\ next_id <= MaxRequests
    /\ rpc' = [rpc EXCEPT ![c] =
                  [pc |-> "register", id |-> next_id, inbox |-> NoResponse, ret |-> NoRet]]
    /\ next_id' = next_id + 1
    /\ issued' = Append(issued, next_id)
    /\ UNCHANGED <<outside, response_handlers, requests, writer, child, output, reader>>

\* send_request, second block: the sender of a fresh oneshot channel is put
\* into the handler map under the id.
SendRequestRegister(c) ==
    /\ rpc[c].pc = "register"
    /\ response_handlers' = insert(response_handlers, rpc[c].id, c)
    /\ rpc' = [rpc EXCEPT ![c].pc = "send"]
    /\ UNCHANGED <<outside, next_id, requests, writer, child, output, reader, issued>>

\* `self.tx.send(request).await?`: the request is queued, or the receiver is
\* gone with the writer task and `?` returns the SendError.
SendRequestSend(c) ==
    /\ rpc[c].pc = "send"
    /\ IF writer = "ended"
       THEN /\ rpc' = [rpc EXCEPT ![c].pc = "idle",
                                  ![c].ret = Err("SendError", "channel closed")]
            /\ UNCHANGED requests
       ELSE /\ Len(requests) < RequestCapacity
            /\ requests' = Append(requests, [id |-> rpc[c].id, method |-> Method(c)])
            /\ rpc' = [rpc EXCEPT ![c].pc = "await"]
    /\ UNCHANGED <<outside, next_id, response_handlers, writer, child, output, reader, issued>>

\* `response_rx.await`: the value the sender sent, or the error when the
\* sender was dropped without sending. The sender lives in the handler map.
SenderDropped(c) == rpc[c].id \notin DOMAIN response_handlers
SendRequestAwait(c) ==
    /\ rpc[c].pc = "await"
    /\ IF IsSome(rpc[c].inbox)
       THEN rpc' = [rpc EXCEPT ![c].pc = "idle", ![c].ret = Ok(Unwrap(rpc[c].inbox))]
       ELSE /\ SenderDropped(c)
            /\ rpc' = [rpc EXCEPT ![c].pc = "idle",
                                  ![c].ret = Err("Custom",
                                                 "Request timeout or sidecar disconnected")]
    /\ UNCHANGED <<outside, next_id, response_handlers, requests, writer, child, output,
                   reader, issued>>

\* The writer task: `request_rx.recv()`, then the line is written to stdin.
WriterWrites ==
    /\ writer = "running"
    /\ requests # <<>>
    /\ child.alive
    /\ child' = [child EXCEPT !.stdin = Append(@, request_to_string(Head(requests)))]
    /\ requests' = Tail(requests)
    /\ UNCHANGED <<outside, next_id, response_handlers, writer, output, reader, rpc, issued>>

\* `child.write` returns Err: the task breaks and drops the receiver with
\* what the channel still holds.
WriteFails ==
    /\ writer = "running"
    /\ requests # <<>>
    /\ writer' = "ended"
    /\ requests' = <<>>
    /\ UNCHANGED <<outside, next_id, response_handlers, child, output, reader, rpc, issued>>

\* The sidecar process prints to stdout, prints to stderr, exits.
SidecarPrints ==
    /\ child.alive
    /\ child.raised < MaxOutput
    /\ \E data \in Chunks :
          output' = Append(output, [kind |-> "Stdout", data |-> data])
    /\ child' = [child EXCEPT !.raised = @ + 1]
    /\ UNCHANGED <<outside, next_id, response_handlers, requests, writer, reader, rpc, issued>>

SidecarWarns ==
    /\ child.alive
    /\ child.raised < MaxOutput
    /\ output' = Append(output, [kind |-> "Stderr", data |-> <<>>])
    /\ child' = [child EXCEPT !.raised = @ + 1]
    /\ UNCHANGED <<outside, next_id, response_handlers, requests, writer, reader, rpc, issued>>

SidecarTerminates ==
    /\ child.alive
    /\ child' = [child EXCEPT !.alive = FALSE]
    /\ output' = Append(output, [kind |-> "Terminated", data |-> <<>>])
    /\ UNCHANGED <<outside, next_id, response_handlers, requests, writer, reader, rpc, issued>>

\* The reader task: `rx.recv()` and the match on the event.
ReaderRecv ==
    /\ reader.pc = "recv"
    /\ output # <<>>
    /\ output' = Tail(output)
    /\ reader' = CASE Head(output).kind = "Stdout" ->
                        [pc |-> "lines", lines |-> Head(output).data]
                   [] Head(output).kind = "Terminated" -> [pc |-> "ended", lines |-> <<>>]
                   [] OTHER -> reader
    /\ UNCHANGED <<outside, next_id, response_handlers, requests, writer, child, rpc, issued>>

\* One turn of `for line in line.lines()`: an empty line is skipped, a line
\* that is no RpcResponse is logged, a response takes its handler out of the
\* map and is sent through it (`let _ =`: a receiver that is gone is ignored).
ReaderLine ==
    /\ reader.pc = "lines"
    /\ LET line == Head(reader.lines)
           response == Read[line]
           found == IF IsSome(response)
                    THEN remove(response_handlers, Unwrap(response).id) ELSE None
       IN IF IsSome(found)
          THEN LET key == Unwrap(found)
                   c == response_handlers[key]
               IN /\ response_handlers' = without(response_handlers, key)
                  /\ rpc' = IF Receiving(c, key)
                            THEN [rpc EXCEPT ![c].inbox = Some(Unwrap(response))]
                            ELSE rpc
          ELSE UNCHANGED <<response_handlers, rpc>>
    /\ reader' = IF Len(reader.lines) = 1 THEN [pc |-> "recv", lines |-> <<>>]
                 ELSE [reader EXCEPT !.lines = Tail(@)]
    /\ UNCHANGED <<outside, next_id, requests, writer, child, output, issued>>

InitRpc ==
    /\ DatabaseNew
    /\ ServiceNew
    /\ SidecarNew
    /\ todos_file = None

NextRpc ==
    \/ WriterWrites
    \/ WriteFails
    \/ SidecarPrints
    \/ SidecarWarns
    \/ SidecarTerminates
    \/ ReaderRecv
    \/ ReaderLine
    \/ \E c \in Callers :
          \/ SendRequestTakeId(c)
          \/ SendRequestRegister(c)
          \/ SendRequestSend(c)
          \/ SendRequestAwait(c)

RpcSpec == InitRpc /\ [][NextRpc]_vars

\* The runtime runs every task that can take a step: the writer, the reader
\* and each caller inside send_request. Nothing is assumed of the sidecar
\* process, nor of when a command calls send_request.
RpcFairness ==
    /\ WF_vars(WriterWrites \/ WriteFails)
    /\ WF_vars(ReaderRecv \/ ReaderLine)
    /\ \A c \in Callers :
          WF_vars(SendRequestRegister(c) \/ SendRequestSend(c) \/ SendRequestAwait(c))

FairRpcSpec == RpcSpec /\ RpcFairness

\* ------------------------------------------------------------- properties
\* Task p has run method op to its end and not yet dropped the guard.
Returned(p, op) == pc[p] = "ret" /\ call[p].op = op
\* The tables are as they were when the running method took the guard.
NothingWritten == Snapshot = pre
PreObjectIds == {o.id : o \in pre.data_objects}
PreObjectsAtPath(path) == {o \in pre.data_objects : o.file_path = Some(path)}
PreSchemaNames == {s.schema_name : s \in pre.schemas}

\* C1: load_object of an id that a successful save_object returned, with no
\* delete_object of that id in between, returns the saved content, schema
\* name and file path, and the permissions passed to save_object (the default
\* ones when none were passed) or set for the id since.
C1_RoundTrip ==
    \A p \in Tasks :
        (/\ Returned(p, "load_object")
         /\ call[p].object_id \in DOMAIN saved
         /\ ret[p] # StorageFailure)
        => /\ ret[p].status = "Ok"
           /\ LET loaded == Unwrap(ret[p].value)
                  given == saved[call[p].object_id]
              IN /\ loaded.content = given.content
                 /\ loaded.schema_name = given.schema_name
                 /\ loaded.file_path = given.file_path
                 /\ loaded.permissions = given.permissions

\* C2: whenever no method is running, every data_objects row has exactly one
\* object_content row and exactly one object_permissions row, and every
\* content and permissions row belongs to a data_objects row.
C2_RowsTogether ==
    connection = Unlocked =>
        /\ \A o \in data_objects :
              /\ Cardinality(RowsOf(object_content, {o.id})) = 1
              /\ Cardinality(RowsOf(object_permissions, {o.id})) = 1
        /\ \A r \in object_content \cup object_permissions : r.object_id \in ObjectIds

\* C3: no two data_objects rows have the same file path, and a save_object
\* with a registered schema and a file path that a row already has returns a
\* Database error and writes nothing.
C3_UniqueFilePath ==
    /\ \A o1, o2 \in data_objects :
          (IsSome(o1.file_path) /\ o1.file_path = o2.file_path) => o1.id = o2.id
    /\ \A p \in Tasks :
          (/\ Returned(p, "save_object")
           /\ call[p].schema_name \in PreSchemaNames
           /\ IsSome(call[p].file_path)
           /\ PreObjectsAtPath(Unwrap(call[p].file_path)) # {})
          => /\ ret[p].status = "Database"
             /\ NothingWritten

\* A save_object on a claimed path has been refused with the constraint error.
C3_Witness ==
    \E p \in Tasks :
        /\ Returned(p, "save_object")
        /\ IsSome(call[p].file_path)
        /\ PreObjectsAtPath(Unwrap(call[p].file_path)) # {}
        /\ ret[p] = ConstraintViolation
        /\ \E o \in data_objects : o.file_path = call[p].file_path /\ o.id \in DOMAIN saved

\* C4: two save_object calls in flight together, on registered schemas, on
\* file paths no other row has, with no storage failure and no third call
\* before both have finished: with different file paths (or none) both return
\* Ok with different ids; with the same file path exactly one returns Ok and
\* the other the constraint error.  Stated where the later one has finished.
C4_ConcurrentSaves ==
    \A p \in Tasks :
        (/\ Returned(p, "save_object")
         /\ IsSome(call[p].peer)
         /\ Unwrap(call[p].peer).result # NoRet)
        => LET mine == ret[p]
               theirs == Unwrap(call[p].peer).result
               paths == {call[p].file_path, Unwrap(call[p].peer).file_path} \ {None}
               others == {o \in pre.data_objects :
                            /\ o.file_path \in paths
                            /\ ~(theirs.status = "Ok" /\ o.id = Unwrap(theirs.value))}
           IN (/\ {mine, theirs} \cap {StorageFailure, Err("SchemaNotFound", "")} = {}
               /\ others = {})
              => IF Cardinality(paths) = 1 /\ call[p].file_path = Unwrap(call[p].peer).file_path
                 THEN \/ theirs.status = "Ok" /\ mine = ConstraintViolation
                      \/ mine.status = "Ok" /\ theirs = ConstraintViolation
                 ELSE /\ theirs.status = "Ok"
                      /\ mine.status = "Ok"
                      /\ theirs.value # mine.value

\* Two overlapping saves of the same path: the first returned Ok, the second
\* the constraint error.
C4_Witness ==
    \E p \in Tasks :
        /\ Returned(p, "save_object")
        /\ IsSome(call[p].peer)
        /\ Unwrap(call[p].peer).result.status = "Ok"
        /\ call[p].file_path = Unwrap(call[p].peer).file_path
        /\ IsSome(call[p].file_path)
        /\ ret[p] = ConstraintViolation
        /\ PreObjectsAtPath(Unwrap(call[p].file_path))
             = {o \in pre.data_objects : o.id = Unwrap(Unwrap(call[p].peer).result.value)}

\* C5: no two schemas rows have the same schema_name, and when
\* register_schema returns Ok the one row of that name has the definition
\* just given and the returned id.
C5_OneDefinitionPerName ==
    /\ \A r1, r2 \in schemas : r1.schema_name = r2.schema_name => r1 = r2
    /\ \A p \in Tasks :
          (Returned(p, "register_schema") /\ ret[p].status = "Ok")
          => \E r \in schemas :
                /\ r.schema_name = call[p].schema_name
                /\ r.definition_json = call[p].definition_json
                /\ r.id = Unwrap(ret[p].value)

\* A name that had a row with another definition has been registered again.
C5_Witness ==
    \E p \in Tasks :
        /\ Returned(p, "register_schema")
        /\ ret[p].status = "Ok"
        /\ \E r \in pre.schemas :
              /\ r.schema_name = call[p].schema_name
              /\ r.definition_json # call[p].definition_json
              /\ IsSome(from_str(r.definition_json))

\* What the statements of the method task p is in have written since it took
\* the guard: nothing that is not its own.
OnlyOwnWrites(p) ==
    LET own == local[p].object_id
    IN CASE pc[p] \in {"save_insert_object", "touch_update"} -> NothingWritten
         [] pc[p] = "save_insert_content" ->
              /\ schemas = pre.schemas
              /\ {o \in data_objects : o.id # own} = pre.data_objects
              /\ object_content = pre.object_content
              /\ object_permissions = pre.object_permissions
         [] pc[p] = "save_insert_permissions" ->
              /\ schemas = pre.schemas
              /\ {o \in data_objects : o.id # own} = pre.data_objects
              /\ {r \in object_content : r.object_id # own} = pre.object_content
              /\ object_permissions = pre.object_permissions
         [] pc[p] = "update_timestamp" ->
              /\ schemas = pre.schemas
              /\ data_objects = pre.data_objects
              /\ object_content = pre.object_content
              /\ {r \in object_permissions : r.object_id # call[p].object_id}
                   = {r \in pre.object_permissions : r.object_id # call[p].object_id}
         [] pc[p] = "ret" /\ call[p].op \in {"load_object", "load_objects_by_schema"} ->
              NothingWritten
         [] OTHER -> TRUE

\* C6: the methods run one at a time: at most one task is inside a method
\* body and it holds the connection; from the moment it took the guard the
\* tables have changed by its own statements only, and a reading method
\* returns what the tables hold with no other method part-way through.
C6_OneAtATime ==
    /\ \A p, q \in Tasks : (InBody(p) /\ InBody(q)) => p = q
    /\ \A p \in Tasks : InBody(p) => (connection = p /\ OnlyOwnWrites(p))
    /\ \A p \in Tasks :
          (Returned(p, "load_object") /\ ret[p] # StorageFailure)
          => ret[p] = LoadResult(call[p].object_id)

\* One task is between two writes of save_object while the other has called
\* load_object and waits for the connection.
C6_Witness ==
    \E p, q \in Tasks :
        /\ pc[p] = "save_insert_permissions"
        /\ pc[q] = "lock"
        /\ call[q].op = "load_object"
        /\ call[q].object_id = local[p].object_id

\* C7: update_object_permissions on an id that has an object either returns
\* Ok with the permissions row replaced by the given permissions and
\* updated_at set to the timestamp it took, or returns an error with nothing
\* written.
C7_PermissionsAndTimestampTogether ==
    \A p \in Tasks :
        (Returned(p, "update_object_permissions") /\ call[p].object_id \in PreObjectIds)
        => IF ret[p].status = "Ok"
           THEN /\ RowsOf(object_permissions, {call[p].object_id})
                     = {PermissionsRow(call[p].object_id, Unwrap(call[p].permissions))}
                /\ \A o \in data_objects :
                      o.id = call[p].object_id => o.updated_at = local[p].now
           ELSE NothingWritten

\* C8: update_object_permissions on an id that has no data_objects row
\* returns ObjectNotFound (or the error of a failed statement) and writes
\* nothing.
C8_UpdateAbsent ==
    \A p \in Tasks :
        (Returned(p, "update_object_permissions") /\ call[p].object_id \notin PreObjectIds)
        => /\ ret[p] \in {Err("ObjectNotFound", ""), StorageFailure}
           /\ NothingWritten

\* The update of an id without an object has returned ObjectNotFound while
\* other objects are stored.
C8_Witness ==
    \E p \in Tasks :
        /\ Returned(p, "update_object_permissions")
        /\ call[p].object_id \notin PreObjectIds
        /\ ret[p] = Err("ObjectNotFound", "")
        /\ pre.object_permissions # {}

\* C9: delete_object of an id that has an object returns Ok (or the error of
\* a failed statement, with nothing written); after Ok the object, its
\* content row and its permissions row are gone, load_object of the id finds
\* nothing, the id is not given out again, and every other row is as before.
\* delete_object and load_object of an id that has no object return
\* ObjectNotFound (or the error of a failed statement) and write nothing.
C9_Delete ==
    \A p \in Tasks :
        LET id == call[p].object_id IN
        /\ (Returned(p, "delete_object") /\ id \in PreObjectIds)
           => \/ ret[p] = StorageFailure /\ NothingWritten
              \/ /\ ret[p] = Ok(TRUE)
                 /\ schemas = pre.schemas
                 /\ data_objects = {o \in pre.data_objects : o.id # id}
                 /\ object_content = {r \in pre.object_content : r.object_id # id}
                 /\ object_permissions = {r \in pre.object_permissions : r.object_id # id}
                 /\ LoadResult(id) = Err("ObjectNotFound", "")
                 /\ id <= sqlite_sequence.data_objects
        /\ (/\ pc[p] = "ret"
            /\ call[p].op \in {"delete_object", "load_object"}
            /\ id \notin PreObjectIds)
           => /\ ret[p] \in {Err("ObjectNotFound", ""), StorageFailure}
              /\ NothingWritten

\* An object with content and permissions has been deleted while another
\* object is stored.
C9_Witness ==
    \E p \in Tasks :
        /\ Returned(p, "delete_object")
        /\ ret[p] = Ok(TRUE)
        /\ RowsOf(pre.object_content, {call[p].object_id}) # {}
        /\ RowsOf(pre.object_permissions, {call[p].object_id}) # {}
        /\ data_objects # {}

\* C10: save_object with a schema name that has no schemas row returns
\* SchemaNotFound (or the error of a failed statement) and writes nothing.
C10_SchemaNotFound ==
    \A p \in Tasks :
        (Returned(p, "save_object") /\ call[p].schema_name \notin PreSchemaNames)
        => /\ ret[p] \in {Err("SchemaNotFound", ""), StorageFailure}
           /\ NothingWritten

\* A save under an unregistered name has returned SchemaNotFound.
C10_Witness ==
    \E p \in Tasks :
        /\ Returned(p, "save_object")
        /\ call[p].schema_name \notin PreSchemaNames
        /\ ret[p] = Err("SchemaNotFound", "")

SchemaNames == {s.schema_name : s \in schemas}
\* The data_objects rows whose schemas row has the given name.
ObjectsNamed(name) == ObjectsOfSchemas(SchemaIdsNamed(name))

\* C11: every data_objects row references exactly one schemas row; when
\* register_schema has removed a schemas row, the objects of that row, their
\* content rows and their permissions rows are gone, load_object of each
\* former id finds nothing and the join of load_objects_by_schema for the
\* name is empty.
C11_SchemaCascade ==
    /\ \A o \in data_objects : Cardinality({s \in schemas : s.id = o.schema_id}) = 1
    /\ \A p \in Tasks :
          (Returned(p, "register_schema") /\ ret[p].status = "Ok")
          => LET removed == {s.id : s \in pre.schemas} \ {s.id : s \in schemas}
                 former == {o.id : o \in {x \in pre.data_objects : x.schema_id \in removed}}
             IN /\ ObjectIds \cap former = {}
                /\ RowsOf(object_content, former) = {}
                /\ RowsOf(object_permissions, former) = {}
                /\ \A id \in former : LoadResult(id) = Err("ObjectNotFound", "")
                /\ removed # {}
                     => {j \in JoinedRows(data_objects) :
                           j[2].schema_name = call[p].schema_name} = {}

\* A schemas row that had a stored object has been replaced.
C11_Witness ==
    \E p \in Tasks :
        /\ Returned(p, "register_schema")
        /\ ret[p].status = "Ok"
        /\ \E o \in pre.data_objects :
              /\ o.schema_id \notin {s.id : s \in schemas}
              /\ RowsOf(pre.object_content, {o.id}) # {}
              /\ RowsOf(pre.object_permissions, {o.id}) # {}

\* C12: the AUTOINCREMENT counter of data_objects never decreases; an id that
\* appears in data_objects is larger than every id given out before; a
\* save_object that returns Ok returns the id it inserted; and a content row
\* stays with its id for as long as the id has a data_objects row.
C12_IdsIncrease ==
    [][/\ sqlite_sequence'.data_objects >= sqlite_sequence.data_objects
       /\ \A id \in ObjectIds' \ ObjectIds :
             /\ id > sqlite_sequence.data_objects
             /\ id = sqlite_sequence'.data_objects
       /\ \A p \in Tasks :
             (/\ pc[p] # "ret"
              /\ pc'[p] = "ret"
              /\ call[p].op = "save_object"
              /\ ret'[p].status = "Ok")
             => /\ Unwrap(ret'[p].value) = local[p].object_id
                /\ Unwrap(ret'[p].value) \in ObjectIds'
                /\ \A id \in DOMAIN saved : id < Unwrap(ret'[p].value)
       /\ \A r \in object_content : r.object_id \in ObjectIds' => r \in object_content'
      ]_vars

\* A save has returned an id larger than the number of stored objects: an
\* earlier id is gone and was not given out again.
C12_Witness ==
    \E p \in Tasks :
        /\ Returned(p, "save_object")
        /\ ret[p].status = "Ok"
        /\ Unwrap(ret[p].value) > Cardinality(ObjectIds)
        /\ Unwrap(ret[p].value) \in ObjectIds

\* C13: load_objects_by_schema returns Ok with the data_objects rows of the
\* schema, each once, in an order in which created_at does not increase
\* (the empty sequence when the schema has none).
C13_LoadBySchema ==
    \A p \in Tasks :
        (Returned(p, "load_objects_by_schema") /\ ret[p] # StorageFailure)
        => /\ ret[p].status = "Ok"
           /\ LET objs == Unwrap(ret[p].value) IN
              /\ {objs[i].id : i \in DOMAIN objs} = {o.id : o \in ObjectsNamed(call[p].schema_name)}
              /\ Len(objs) = Cardinality(ObjectsNamed(call[p].schema_name))
              /\ \A i, k \in DOMAIN objs : i < k => objs[i].created_at >= objs[k].created_at

\* C14: update_object_from_file_path of a path some data_objects row has
\* returns that row's id and sets that row's updated_at to the timestamp it
\* took, changing nothing else; of a path no row has it returns Ok(None) and
\* writes nothing (a failed statement returns its error and writes nothing).
C14_TouchByPath ==
    \A p \in Tasks :
        Returned(p, "update_object_from_file_path")
        => LET claimed == PreObjectsAtPath(Unwrap(call[p].file_path)) IN
           IF claimed = {}
           THEN ret[p] \in {Ok(None), StorageFailure} /\ NothingWritten
           ELSE \/ ret[p] = StorageFailure /\ NothingWritten
                \/ \E o \in claimed :
                      /\ ret[p] = Ok(Some(o.id))
                      /\ local[p].now = clock
                      /\ data_objects = (pre.data_objects \ {o})
                                           \cup {[o EXCEPT !.updated_at = local[p].now]}
                      /\ schemas = pre.schemas
                      /\ object_content = pre.object_content
                      /\ object_permissions = pre.object_permissions

\* The path of one of two stored objects has been touched at a later time.
C14_Witness ==
    \E p \in Tasks :
        /\ Returned(p, "update_object_from_file_path")
        /\ ret[p].status = "Ok"
        /\ IsSome(Unwrap(ret[p].value))
        /\ Cardinality(pre.data_objects) >= 2
        /\ data_objects # pre.data_objects

C16_SchemaNamesGrow ==
    /\ "core.todo" \in SchemaNames
    /\ \A p \in Tasks : InBody(p) => PreSchemaNames \subseteq SchemaNames

\* A registered name has been registered again while another name is
\* registered too.
C16_Witness ==
    \E p \in Tasks :
        /\ Returned(p, "register_schema")
        /\ ret[p].status = "Ok"
        /\ call[p].schema_name \in PreSchemaNames
        /\ Cardinality(SchemaNames) >= 2

\* The records of a todos file, each as serde_json::from_value reads it, and
\* whether the file is there, parses and holds only well-formed records.
FileRecords(text) ==
    LET values == todos_array(Unwrap(from_str(text)))
    IN [i \in 1..Len(values) |-> todo_from_value(values[i])]
WellFormed(file) ==
    /\ IsSome(file)
    /\ IsSome(from_str(Unwrap(file)))
    /\ \A i \in DOMAIN FileRecords(Unwrap(file)) : IsSome(FileRecords(Unwrap(file))[i])
\* What load_objects_by_schema("core.todo") would return now, as a set.
LoadedTodos == {AppObject(j) : j \in JoinedRows(ObjectsNamed("core.todo"))}
\* No error the engine has recorded is a storage failure.
NoStorageFailureRecorded ==
    \A i \in DOMAIN status.errors : status.errors[i].error # StorageFailure

\* C17: when the initial scan of start() has ended for a todos file of N >= 1
\* well-formed records (and no statement failed with a storage error),
\* load_objects_by_schema("core.todo") returns exactly N objects, the records
\* of the file, each with the todos file's path as file_path.
C17_InitialScan ==
    (/\ service.pc = "scanned"
     /\ WellFormed(todos_file)
     /\ NoStorageFailureRecorded)
    => LET records == FileRecords(Unwrap(todos_file)) IN
       Len(records) >= 1
       => /\ Cardinality(LoadedTodos) = Len(records)
          /\ {o.content : o \in LoadedTodos} = {Unwrap(records[i]) : i \in DOMAIN records}
          /\ \A o \in LoadedTodos : o.file_path = Some(TodosPath)

\* handle_file_event is running: the consumer has taken an event and the
\* function has not returned.
Handling == consumer.pc \in {"path", "loading", "touch", "touching", "event_end"}

\* C18: the step that starts a batch sets is_syncing and adds 1 to
\* pending_changes; the step in which handle_file_event returns, with Ok or
\* with the error of a path, clears is_syncing, takes 1 from pending_changes
\* (not below 0) and sets last_sync to the time of that step.
C18_BatchStatus ==
    [][/\ (consumer.pc = "recv" /\ Handling')
          => /\ status'.is_syncing
             /\ status'.pending_changes = status.pending_changes + 1
       /\ (Handling /\ ~Handling')
          => /\ ~status'.is_syncing
             /\ status'.pending_changes =
                   (IF status.pending_changes = 0 THEN 0 ELSE status.pending_changes - 1)
             /\ status'.last_sync = Some(clock')]_vars

\* The engine is watching, the consumer waits in rx.recv() and the channel is
\* empty: every event sent so far has been handled, and until a new event
\* arrives no step of the engine changes the status.
Quiescent ==
    /\ service.pc = "watching"
    /\ consumer.pc = "recv"
    /\ events = <<>>

\* C19: while watching, once every event sent so far has been handled (with
\* Ok or with a recorded error) and none is waiting, the status says
\* pending_changes = 0 and is_syncing = false; the status cannot change from
\* there before a new event arrives, so this is where it stays.
C19_Quiescent ==
    Quiescent => status.pending_changes = 0 /\ ~status.is_syncing

\* The consumer has handled every path of a Create or Modify event that names
\* the todos file, and handle_file_event is about to return Ok.
TodosFileChangeHandled ==
    /\ consumer.pc = "event_end"
    /\ consumer.event.kind \in {"Create", "Modify"}
    /\ \E i \in DOMAIN consumer.event.paths : consumer.event.paths[i] = TodosPath

\* C20: when a Create or Modify event for the todos file has been handled and
\* the file holds well-formed records (and no statement failed with a storage
\* error), load_objects_by_schema("core.todo") returns the records of the
\* file as it is now: two objects after a second todo was appended to a file
\* of one.
C20_TodosFileChange ==
    (/\ TodosFileChangeHandled
     /\ WellFormed(todos_file)
     /\ NoStorageFailureRecorded)
    => LET records == FileRecords(Unwrap(todos_file)) IN
       /\ Cardinality(LoadedTodos) = Len(records)
       /\ {o.content : o \in LoadedTodos} = {Unwrap(records[i]) : i \in DOMAIN records}

\* C21: whenever a reader of the status can see is_syncing = false, no batch
\* is partly processed: the consumer is not inside handle_file_event and has
\* no failure of a batch left to record (also with force_sync running beside
\* the consumer).
C21_NoPartBatch ==
    ~status.is_syncing => ~Handling /\ consumer.pc # "failed"

\* An event of this kind makes handle_file_event call the database for the path.
NeedsHandling(kind, path) ==
    /\ ~Skipped(path)
    /\ \/ kind \in {"Create", "Modify"} /\ IsJson(path)
       \/ kind = "Remove"

\* C22: when the handling of one path of an event has failed and
\* handle_file_event has returned the failure to be recorded, no later path of
\* the same event is left unhandled.
C22_RemainingPaths ==
    consumer.pc = "failed"
    => \A k \in (consumer.i + 1)..Len(consumer.event.paths) :
          ~NeedsHandling(consumer.event.kind, consumer.event.paths[k])

\* C23: when a malformed todos file has been created while the engine
\* watches, every event sent so far has been handled, no scan was forced and
\* no statement failed with a storage error, the consumer still waits for
\* events and status.errors holds exactly one entry, the one for that file.
C23_MalformedFile ==
    (/\ todos_file = Some(BrokenFile)
     /\ ~IsSome(from_str(BrokenFile))
     /\ consumer.pc = "recv"
     /\ events = <<>>
     /\ service.forced = 0
     /\ NoStorageFailureRecorded)
    => Len(status.errors) = 1

\* C24: when the initial scan reaches its last block, every record of a
\* well-formed todos file has been tried: it is stored with the file's path
\* or its error is in status.errors; a file that does not parse has its one
\* entry; and when the scan has returned (always with Ok) is_syncing is false
\* and last_sync is the time of its last block.
C24_ScanErrors ==
    /\ (service.pc = "scan_end" /\ service.forced = 0 /\ WellFormed(todos_file))
       => Cardinality(ObjectsAtPath(TodosPath)) + Len(status.errors)
             >= Len(FileRecords(Unwrap(todos_file)))
    /\ (/\ service.pc = "scan_end" /\ service.forced = 0
        /\ IsSome(todos_file) /\ ~IsSome(from_str(Unwrap(todos_file))))
       => Len(status.errors) = 1
    /\ service.pc = "scanned"
       => ~status.is_syncing /\ status.last_sync = Some(clock)

\* The objects stored for the todos file when force_sync was called were the
\* records of the file that the scan before had read (none for no file).
PreviousScanStored ==
    {o.content : o \in {b \in service.before : b.file_path = Some(TodosPath)}}
       = (IF IsSome(service.seen)
          THEN {Unwrap(FileRecords(Unwrap(service.seen))[i]) :
                   i \in DOMAIN FileRecords(Unwrap(service.seen))}
          ELSE {})

\* C25: when a scan started by force_sync reaches its last block, having read
\* the todos file as the scan before it did, absent or well-formed and with
\* its records stored (and no statement failed with a storage error), the
\* stored objects, their contents and their file paths are as they were when
\* force_sync was called, and status.errors is empty.
C25_ForceSyncIdempotent ==
    (/\ service.pc = "scan_end"
     /\ service.forced > 0
     /\ service.unchanged
     /\ (IsSome(service.seen) => WellFormed(service.seen))
     /\ PreviousScanStored
     /\ NoStorageFailureRecorded)
    => /\ StoredObjects = service.before
       /\ status.errors = <<>>

\* The step appends the error of a failed batch to status.errors.
BatchErrorRecorded ==
    /\ Len(status'.errors) = Len(status.errors) + 1
    /\ status'.errors[Len(status'.errors)].prefix = ""

\* C26: get_status reads the status between any two steps, so every step that
\* changes it must leave a whole update: the step that clears is_syncing also
\* sets last_sync to its time and, for a batch, takes 1 from pending_changes;
\* and the step that records the error of a failed batch is the step of that
\* batch's completion (is_syncing cleared, pending_changes decremented,
\* last_sync set).
C26_AtomicStatus ==
    [][/\ (status.is_syncing /\ ~status'.is_syncing)
          => /\ status'.last_sync = Some(clock')
             /\ (Handling /\ ~Handling')
                => status'.pending_changes =
                      (IF status.pending_changes = 0 THEN 0 ELSE status.pending_changes - 1)
       /\ BatchErrorRecorded
          => /\ ~status'.is_syncing
             /\ status'.pending_changes =
                   (IF status.pending_changes = 0 THEN 0 ELSE status.pending_changes - 1)
             /\ status'.last_sync = Some(clock')]_vars

\* C27: once the service has been shut down (the only way the code has is to
\* drop it), the consumer begins no further event.
C27_Shutdown ==
    [][service.pc = "dropped" => ~(consumer.pc = "recv" /\ consumer'.pc = "path")]_vars

\* C28: when new_debouncer or watch has failed, start has returned the Notify
\* error, no consumer task exists, no watcher is registered and no event was
\* ever sent or handled.
C28_WatchSetupFails ==
    service.pc = "failed"
    => /\ service.error = Err("Notify", "")
       /\ consumer.pc = "none"
       /\ ~service.watcher
       /\ events = <<>>
       /\ emitted = 0
\* start has returned the error of the watcher setup, the initial scan done.
C28_Witness ==
    service.pc = "failed" /\ IsSome(status.last_sync)

\* The scan that start() runs has not returned yet.
InitialScanRunning ==
    /\ service.forced = 0
    /\ service.pc \in {"new", "scan_file", "scan_record", "scan_saving", "scan_failed",
                      "scan_end"}

\* C29: until the scan of start() has returned no watcher is registered, no
\* consumer task exists and no event has been sent; when it has returned
\* is_syncing is false and last_sync is set; and whenever a watcher is
\* registered or a consumer task exists, last_sync is set.
C29_StartOrder ==
    /\ InitialScanRunning
       => /\ ~service.watcher
          /\ consumer.pc = "none"
          /\ events = <<>>
          /\ emitted = 0
    /\ service.pc = "scanned" => ~status.is_syncing /\ IsSome(status.last_sync)
    /\ (service.watcher \/ consumer.pc # "none") => IsSome(status.last_sync)
\* The consumer handles an event of a service that was started and never
\* forced to scan again.
C29_Witness ==
    Handling /\ service.forced = 0 /\ service.watcher

\* The path lies in the engine's metadata directory <vault>/.nexus.
InMetadataDirectory(path) == components(path)[1] = ".nexus"

\* C30: for a path in the metadata directory the consumer calls no method of
\* the database, whatever the kind of the event: it is never the path of a
\* call in flight, the consumer never waits for a call made for it, and no
\* object has it as file path.
C30_MetadataSkipped ==
    /\ consumer.pc \in {"loading", "touch", "touching"}
       => ~InMetadataDirectory(consumer.event.paths[consumer.i])
    /\ \A p \in Tasks :
          (InCall(p) /\ IsSome(call[p].file_path))
          => ~InMetadataDirectory(Unwrap(call[p].file_path))
    /\ \A o \in data_objects :
          IsSome(o.file_path) => ~InMetadataDirectory(Unwrap(o.file_path))
\* The consumer has gone through all paths of a Remove event that names a
\* path in the metadata directory.
C30_Witness ==
    /\ consumer.pc = "event_end"
    /\ consumer.event.kind = "Remove"
    /\ \E i \in DOMAIN consumer.event.paths : InMetadataDirectory(consumer.event.paths[i])


\* C31: while watching, when the handler comes to a path of a Create, Modify
\* or Remove event that an object claims (a path the filters of .nexus and
\* of hidden and temporary names let through, whatever its extension), it
\* calls the store for that path: update_object_from_file_path, after the
\* load of the todos when the file is todos.json.
C31_ClaimedPathTouched ==
    [][(/\ consumer.pc = "path"
        /\ consumer.i <= Len(consumer.event.paths)
        /\ consumer.event.kind \in {"Create", "Modify", "Remove"}
        /\ ~Skipped(consumer.event.paths[consumer.i])
        /\ ObjectsAtPath(to_string_lossy(consumer.event.paths[consumer.i])) # {}
        /\ consumer' # consumer)
       => consumer'.pc \in {"loading", "touching"}]_vars


\* A data_objects row without its updated_at.
Identity(o) ==
    [id |-> o.id, schema_id |-> o.schema_id, file_path |-> o.file_path,
     created_at |-> o.created_at]

\* The consumer task takes a step of the handling of a Remove event.
RemoveStep ==
    /\ consumer.event.kind = "Remove"
    /\ consumer.pc \in {"path", "touching"}
    /\ (consumer' # consumer \/ pc'[Consumer] # pc[Consumer])

\* C32: no step of the handling of a Remove event takes an object, its
\* content, its permissions or its file_path from the store or adds one; the
\* only thing it may change is the updated_at of the object that claims the
\* removed path, and that only forward.
C32_RemoveKeepsObject ==
    [][RemoveStep
       => /\ {Identity(o) : o \in data_objects'} = {Identity(o) : o \in data_objects}
          /\ Cardinality(data_objects') = Cardinality(data_objects)
          /\ object_content' = object_content
          /\ object_permissions' = object_permissions
          /\ schemas' = schemas
          /\ \A o \in data_objects :
                \/ o \in data_objects'
                \/ /\ o.file_path = call[Consumer].file_path
                   /\ \E n \in data_objects' :
                         Identity(n) = Identity(o) /\ n.updated_at >= o.updated_at]_vars

\* update_object_from_file_path has returned Ok(Some(id)) to the handler of
\* a Remove event, and the object's updated_at is later than its created_at.
C32_Witness ==
    /\ consumer.event.kind = "Remove"
    /\ consumer.pc = "touching"
    /\ pc[Consumer] = "ret"
    /\ ret[Consumer].status = "Ok"
    /\ IsSome(Unwrap(ret[Consumer].value))
    /\ \E o \in data_objects :
          /\ o.id = Unwrap(Unwrap(ret[Consumer].value))
          /\ o.file_path = Some(TodosPath)
          /\ o.updated_at > o.created_at
          /\ RowsOf(object_content, {o.id}) # {}
          /\ RowsOf(object_permissions, {o.id}) # {}


\* The file name marks a hidden file (leading "."), a backup file (leading
\* "~") or a temporary file (trailing ".tmp"), read from its bytes.
HiddenTempOrBackup(path) ==
    LET name == chars(file_name(path)) IN
    /\ name # <<>>
    /\ \/ name[1] \in {".", "~"}
       \/ /\ Len(name) >= 4
          /\ SubSeq(name, Len(name) - 3, Len(name)) = <<".", "t", "m", "p">>

\* C33: the handler never calls the store for a path whose file name marks a
\* hidden, temporary or backup file, whatever the kind of the event.
C33_HiddenSkipped ==
    consumer.pc \in {"loading", "touch", "touching"}
    => ~HiddenTempOrBackup(consumer.event.paths[consumer.i])


\* C34: when register_schema has returned Ok for a name that had objects,
\* every object of that name (saved whole: its three rows were there) is
\* still in the store with its content,
\* permissions and file path, and load_object finds it under the same id.
C34_ReRegistrationKeepsObjects ==
    \A p \in Tasks :
        (Returned(p, "register_schema") /\ ret[p].status = "Ok")
        => LET named == {s.id : s \in {x \in pre.schemas :
                                          x.schema_name = call[p].schema_name}}
               former == {o \in pre.data_objects :
                             /\ o.schema_id \in named
                             /\ RowsOf(pre.object_content, {o.id}) # {}
                             /\ RowsOf(pre.object_permissions, {o.id}) # {}}
           IN \A o \in former :
                 /\ \E n \in data_objects : n.id = o.id /\ n.file_path = o.file_path
                 /\ RowsOf(object_content, {o.id}) = RowsOf(pre.object_content, {o.id})
                 /\ RowsOf(object_permissions, {o.id})
                       = RowsOf(pre.object_permissions, {o.id})
                 /\ LoadResult(o.id).status = "Ok"


\* C35: pending_changes is the number of batches the consumer has begun and
\* not yet ended, 1 while handle_file_event runs and 0 otherwise, in every
\* reachable state.
C35_PendingChanges ==
    /\ status.pending_changes \in {0, 1}
    /\ status.pending_changes = (IF Handling THEN 1 ELSE 0)


\* C36: when the consumer takes an event from the channel, no event of an
\* earlier call of the debouncer's callback is still waiting, in the channel
\* or with the task that has to send it; and no event is lost on the way: a
\* task gives up an event only by putting it at the end of the channel, and
\* an event leaves the channel only as the event the consumer handles next.
C36_DeliveryOrder ==
    [][/\ (consumer.pc = "recv" /\ Handling')
          => /\ \A j \in 1..(consumer'.event.batch - 1) : senders'[j] = <<>>
             /\ \A i \in DOMAIN events' : events'[i].batch >= consumer'.event.batch
       /\ (senders' # senders /\ Len(senders') = Len(senders))
          => \E k \in DOMAIN senders :
                senders[k] # <<>> /\ events' = Append(events, Head(senders[k]))
       /\ Len(events') < Len(events)
          => consumer'.event = Head(events) /\ events' = Tail(events)]_vars


\* The object was saved whole: its content row and its permissions row are there.
SavedWhole(o) ==
    /\ RowsOf(object_content, {o.id}) # {}
    /\ RowsOf(object_permissions, {o.id}) # {}

\* Task p takes a step of the method op it has called.
StepOf(p, op) ==
    /\ call[p].op = op
    /\ pc[p] # "idle"
    /\ pc'[p] # pc[p]

\* C37: in every step, an object that was saved whole and is still there
\* afterwards has the schema, content, file_path and created_at it had; a
\* step of update_object_permissions changes nothing but the permissions row
\* and the updated_at of its object; a step of update_object_from_file_path
\* (the one store write of the file event handlers) changes nothing but the
\* updated_at of the object at its path; the steps of load_object,
\* load_objects_by_schema and get_sync_info change no table.
C37_ObjectFrame ==
    [][/\ \A o \in data_objects : \A n \in data_objects' :
             (SavedWhole(o) /\ n.id = o.id)
             => /\ Identity(n) = Identity(o)
                /\ {s \in schemas' : s.id = n.schema_id} = {s \in schemas : s.id = o.schema_id}
                /\ RowsOf(object_content', {o.id}) = RowsOf(object_content, {o.id})
       /\ \A p \in Tasks :
             /\ StepOf(p, "update_object_permissions")
                => /\ schemas' = schemas
                   /\ object_content' = object_content
                   /\ {Identity(o) : o \in data_objects'} = {Identity(o) : o \in data_objects}
                   /\ \A o \in data_objects : o.id # call[p].object_id => o \in data_objects'
                   /\ \A r \in object_permissions :
                         r.object_id # call[p].object_id => r \in object_permissions'
                   /\ {r.object_id : r \in object_permissions'}
                         = {r.object_id : r \in object_permissions}
             /\ StepOf(p, "update_object_from_file_path")
                => /\ schemas' = schemas
                   /\ object_content' = object_content
                   /\ object_permissions' = object_permissions
                   /\ {Identity(o) : o \in data_objects'} = {Identity(o) : o \in data_objects}
                   /\ \A o \in data_objects :
                         o.file_path # call[p].file_path => o \in data_objects'
             /\ (\/ StepOf(p, "load_object")
                 \/ StepOf(p, "load_objects_by_schema")
                 \/ StepOf(p, "get_sync_info"))
                => /\ schemas' = schemas
                   /\ data_objects' = data_objects
                   /\ object_content' = object_content
                   /\ object_permissions' = object_permissions]_vars

\* update_object_permissions has returned Ok for an object that was saved
\* whole: its permissions row is another one and its updated_at is later
\* than its created_at.
C37_Witness ==
    \E p \in Tasks :
        /\ Returned(p, "update_object_permissions")
        /\ ret[p].status = "Ok"
        /\ \E o \in data_objects :
              /\ o.id = call[p].object_id
              /\ SavedWhole(o)
              /\ RowsOf(object_permissions, {o.id}) # RowsOf(pre.object_permissions, {o.id})
              /\ o.updated_at > o.created_at


\* The step is the first block of perform_initial_scan, run by start() or by
\* force_sync().
ScanStarts == service.pc \in {"new", "watching"} /\ service'.pc = "scan_file"

\* C38: a step changes status.errors in one of three ways only: the start of
\* a scan empties it and sets pending_changes to 0 in the same step; the
\* consumer appends the one message of the event that has just failed; the
\* scan appends the one message of its own failure. Every start of a scan
\* and every failed event does so. Hence errors never shrinks between two
\* scan starts, and holds the failures of the last scan and of the events
\* that failed since that scan started, in their order.
C38_ErrorsLog ==
    [][/\ status'.errors # status.errors
          => \/ /\ ScanStarts
                /\ status'.errors = <<>>
                /\ status'.pending_changes = 0
             \/ /\ consumer.pc = "failed"
                /\ consumer'.pc = "recv"
                /\ status'.errors = Append(status.errors, EventError(consumer.error))
             \/ /\ service.pc = "scan_failed"
                /\ service'.pc = "scan_end"
                /\ status'.errors = Append(status.errors, ScanError(service.error))
       /\ ScanStarts => status'.errors = <<>> /\ status'.pending_changes = 0
       /\ (consumer.pc = "failed" /\ consumer'.pc # "failed")
          => Len(status'.errors) = Len(status.errors) + 1
       /\ (service.pc = "scan_failed" /\ service'.pc # "scan_failed")
          => Len(status'.errors) = Len(status.errors) + 1]_vars

\* After a forced scan that failed, an event has failed as well: errors
\* holds the message of the scan and then the message of the event.
C38_Witness ==
    /\ service.forced = 1
    /\ service.pc = "watching"
    /\ Len(status.errors) = 2
    /\ status.errors[1].prefix = "Initial todos sync failed: "
    /\ status.errors[2].prefix = ""

\* ---- C39 ----------------------------------------------------------------
\* The response the reader is about to look at, None for an empty line or a
\* line that is no RpcResponse.
AtLine == reader.pc = "lines"
LineRead == Read[Head(reader.lines)]
Pending(c) == rpc[c].pc \in {"send", "await"}

\* C39: calls of send_request that overlap get request ids that differ, and
\* the ids come out strictly increasing in the order they are taken. A
\* response with id X reaches only the caller whose request has id X, once:
\* what a caller's receiver holds changes only from nothing to a response
\* with the caller's own id, in the step that takes the handler of that id
\* out of the map, and no other caller's receiver changes in that step. When
\* the reader meets a line that is no response, or a response whose id has no
\* handler, the handler map and every caller are left as they were.
C39_RpcIds ==
    [][/\ \A i, j \in DOMAIN issued' : i < j => issued'[i] < issued'[j]
       /\ \A c, d \in Callers :
             c # d /\ rpc'[c].pc # "idle" /\ rpc'[d].pc # "idle" => rpc'[c].id # rpc'[d].id
       /\ \A c \in Callers :
             /\ rpc'[c].ret.status = "Ok" => Unwrap(rpc'[c].ret.value).id = rpc'[c].id
             /\ rpc'[c].inbox # rpc[c].inbox /\ rpc'[c].id = rpc[c].id
                => /\ rpc[c].inbox = NoResponse
                   /\ Pending(c)
                   /\ AtLine
                   /\ rpc'[c].inbox = LineRead
                   /\ Unwrap(rpc'[c].inbox).id = rpc[c].id
                   /\ rpc[c].id \in DOMAIN response_handlers
                   /\ rpc[c].id \notin DOMAIN response_handlers'
                   /\ \A d \in Callers \ {c} : rpc'[d] = rpc[d]
       /\ (AtLine /\ reader' # reader
             /\ (~IsSome(LineRead) \/ Unwrap(LineRead).id \notin DOMAIN response_handlers))
          => UNCHANGED <<response_handlers, rpc>>
      ]_vars

\* Two calls overlapped; the one with the larger id has returned the response
\* with its id, the other still waits with its handler in the map, and the
\* reader has got through everything the sidecar printed.
C39_Witness ==
    \E c, d \in Callers :
        /\ rpc[c].pc = "idle"
        /\ rpc[c].ret.status = "Ok"
        /\ Unwrap(rpc[c].ret.value).id = rpc[c].id
        /\ rpc[d].pc = "await"
        /\ rpc[d].id < rpc[c].id
        /\ rpc[d].inbox = NoResponse
        /\ rpc[d].id \in DOMAIN response_handlers
        /\ response_handlers[rpc[d].id] = d
        /\ child.raised = MaxOutput
        /\ output = <<>>
        /\ reader.pc = "recv"

\* ---- C40 ----------------------------------------------------------------
\* The response to caller c's request has been printed by the sidecar and is
\* on its way to the reader.
Answered(c) ==
    LET waiting == reader.lines
                     \o (IF output = <<>> THEN <<>>
                         ELSE IF Head(output).kind = "Stdout" THEN Head(output).data
                         ELSE <<>>)
    IN /\ rpc[c].pc = "await"
       /\ \E i \in DOMAIN waiting :
             /\ IsSome(Read[waiting[i]])
             /\ Unwrap(Read[waiting[i]]).id = rpc[c].id
Disconnected == ~child.alive \/ writer = "ended"

\* C40: a call of send_request returns. When the sidecar has answered, the
\* call returns, and what it returns is the response with its id; when the
\* sidecar has exited or the write to its stdin has failed while the call is
\* under way, the call returns; and a handler that is in the map when the
\* sidecar has exited or the write has failed is taken out of it.
C40_EveryRequestReturns ==
    /\ \A c \in Callers :
          Answered(c) ~> (rpc[c].pc = "idle" /\ rpc[c].ret.status = "Ok"
                            /\ Unwrap(rpc[c].ret.value).id = rpc[c].id)
    /\ \A c \in Callers :
          (rpc[c].pc # "idle" /\ Disconnected) ~> rpc[c].pc = "idle"
    /\ \A id \in 1..MaxRequests :
          (id \in DOMAIN response_handlers /\ Disconnected)
             ~> id \notin DOMAIN response_handlers
====
